---- MODULE Spec2Model ----
(***************************************************************************)
(* Posture-analysis core of HTN-2025: the geometry kernel, the band        *)
(* classifiers, the sitting-metrics extraction and the filters of          *)
(* lib/poseUtils (src/unnamed/part_000), the PostureAnalyzer component     *)
(* that drives them once per landmark frame, the pose worker and the       *)
(* detection loop of PoseDetection.                                        *)
(*                                                                         *)
(* Numbers.  A JavaScript number is an IEEE 754 double, and the model      *)
(* computes with doubles: a number is a record [neg, exp, man] of value    *)
(*     (-1)^neg * m * 2^exp,   m = man[1] + man[2] * 2^14 + man[3] * 2^28  *)
(*                                 + man[4] * 2^42,  2^52 <= m < 2^53,     *)
(* and zero is [neg |-> FALSE, exp |-> 0, man |-> <<>>].  Every operation  *)
(* (+ - * / Math.sqrt) computes the exact result and rounds it to the      *)
(* nearest double, ties to even, as the hardware does; Math.acos is the    *)
(* fdlibm routine the JavaScript engine uses, operation by operation.  A   *)
(* decimal literal n / d of the code is Dec(n, d), the double nearest to   *)
(* it.  Not represented: NaN and the infinities (no operation of the model *)
(* divides by zero or leaves [-1, 1] before Math.acos), numbers below      *)
(* 2^-1022 (none arises), and the sign of zero (nothing the code does with *)
(* its numbers tells -0 from 0).                                           *)
(* Counts, indices and lengths are integers.  Times of performance.now()   *)
(* are whole milliseconds, held as integers by the components and as       *)
(* numbers by the filters.                                                 *)
(* An optional value (a landmark's visibility, a timestamp, baseline,      *)
(* sittingMetrics, analysis) is <<>> when absent or null and <<v>> when    *)
(* set.                                                                    *)
(***************************************************************************)
EXTENDS Integers, Sequences, FiniteSets, TLC

(***************************************************************************)
(* Natural numbers of any size, as sequences of 14-bit limbs, the least    *)
(* significant first and the most significant not zero; <<>> is 0.         *)
(***************************************************************************)
Limb == 16384

LimbBits == 14

Pow2Table == <<1, 2, 4, 8, 16, 32, 64, 128, 256, 512, 1024, 2048, 4096, 8192, 16384>>

\* 2^n for 0 <= n <= 14
Pow2(n) == Pow2Table[n + 1]

Min(a, b) == IF a <= b THEN a ELSE b

Max(a, b) == IF a >= b THEN a ELSE b

Big == Seq(Nat)

\* the number of bits of an integer x >= 0
BitLen[x \in Nat] == IF x = 0 THEN 0 ELSE 1 + BitLen[x \div 2]

BigTrim[a \in Big] ==
    IF a # <<>> /\ a[Len(a)] = 0 THEN BigTrim[SubSeq(a, 1, Len(a) - 1)] ELSE a

\* the limbs of sum(a[i] * 2^(14 (i - 1))) from position i on, with carry c
BigCarry[a \in Big, i \in Nat, c \in Nat] ==
    IF i > Len(a)
    THEN IF c = 0 THEN <<>> ELSE <<c % Limb>> \o BigCarry[a, i, c \div Limb]
    ELSE <<(a[i] + c) % Limb>> \o BigCarry[a, i + 1, (a[i] + c) \div Limb]

\* a sequence of integers >= 0, each below 2^30, brought into limbs
BigNorm[a \in Big] == BigTrim[BigCarry[a, 1, 0]]

BigLimb(a, i) == IF i <= Len(a) THEN a[i] ELSE 0

BigFromInt(n) == BigNorm[<<n>>]

\* the value of a number of at most two limbs
BigToInt[a \in Big] == BigLimb(a, 1) + Limb * BigLimb(a, 2)

BigAdd[a \in Big, b \in Big] ==
    BigNorm[[i \in 1 .. Max(Len(a), Len(b)) |-> BigLimb(a, i) + BigLimb(b, i)]]

BigBorrow[a \in Big, b \in Big, i \in Nat, br \in Nat] ==
    IF i > Len(a) THEN <<>>
    ELSE IF a[i] - BigLimb(b, i) - br < 0
    THEN <<a[i] - BigLimb(b, i) - br + Limb>> \o BigBorrow[a, b, i + 1, 1]
    ELSE <<a[i] - BigLimb(b, i) - br>> \o BigBorrow[a, b, i + 1, 0]

\* a - b for a >= b
BigSub[a \in Big, b \in Big] == BigTrim[BigBorrow[a, b, 1, 0]]

BigCmpFrom[a \in Big, b \in Big, i \in Nat] ==
    IF i = 0 THEN 0
    ELSE IF a[i] > b[i] THEN 1
    ELSE IF a[i] < b[i] THEN -1
    ELSE BigCmpFrom[a, b, i - 1]

\* -1, 0 or 1 as a is below, equal to or above b
BigCmp[a \in Big, b \in Big] ==
    IF Len(a) > Len(b) THEN 1
    ELSE IF Len(a) < Len(b) THEN -1
    ELSE BigCmpFrom[a, b, Len(a)]

\* sum of a[i] * b[k + 1 - i], the k-th column of the product
BigColumn[a \in Big, b \in Big, k \in Nat, i \in Nat] ==
    IF i > Len(a) \/ i > k THEN 0
    ELSE (IF k + 1 - i <= Len(b) THEN a[i] * b[k + 1 - i] ELSE 0)
         + BigColumn[a, b, k, i + 1]

\* a * b, one of the two of at most 7 limbs
BigMul[a \in Big, b \in Big] ==
    IF a = <<>> \/ b = <<>> THEN <<>>
    ELSE BigNorm[[k \in 1 .. (Len(a) + Len(b) - 1) |-> BigColumn[a, b, k, 1]]]

BigSquare[a \in Big] == BigMul[a, a]

\* a * 2^n
BigShl[a \in Big, n \in Nat] ==
    IF a = <<>> THEN <<>>
    ELSE [i \in 1 .. (n \div LimbBits) |-> 0]
         \o BigNorm[[i \in 1 .. Len(a) |-> a[i] * Pow2(n % LimbBits)]]

\* a \div 2^n
BigShr[a \in Big, n \in Nat] ==
    IF Len(a) <= n \div LimbBits THEN <<>>
    ELSE BigTrim[[i \in 1 .. (Len(a) - n \div LimbBits) |->
                     (a[i + n \div LimbBits] \div Pow2(n % LimbBits))
                     + (BigLimb(a, i + n \div LimbBits + 1) % Pow2(n % LimbBits))
                       * Pow2(LimbBits - (n % LimbBits))]]

\* a % 2^n = 0
BigLowZero[a \in Big, n \in Nat] ==
    /\ \A i \in 1 .. Min(n \div LimbBits, Len(a)) : a[i] = 0
    /\ (n % LimbBits = 0 \/ BigLimb(a, n \div LimbBits + 1) % Pow2(n % LimbBits) = 0)

\* the number of bits of a
BigBits[a \in Big] == IF a = <<>> THEN 0 ELSE LimbBits * (Len(a) - 1) + BitLen[a[Len(a)]]

\* bit n of a, bit 0 being the lowest
BigBit[a \in Big, n \in Nat] ==
    (BigLimb(a, n \div LimbBits + 1) \div Pow2(n % LimbBits)) % 2

BigIsOdd(a) == BigLimb(a, 1) % 2 = 1

\* the largest q <= guess with q * b <= rem
FitDigit[rem \in Big, b \in Big, q \in Nat] ==
    IF BigCmp[BigMul[<<q>>, b], rem] > 0 THEN FitDigit[rem, b, q - 1] ELSE q

\* the limbs of a quotient found so far, and what is left to divide
Division == [q : Big, rem : Big]

\* the division d with the quotient's next limb q below those found
NextLimb[d \in Division, r \in Big, b \in Big, q \in Nat] ==
    [q |-> <<q>> \o d.q, rem |-> BigSub[r, BigMul[<<q>>, b]]]

\* one more limb of a long division by b (of four limbs, the highest at
\* least 2^13): the quotient and the remainder of d.rem * 2^14 by b, for
\* d.rem < b
DivLimb[d \in Division, b \in Big] ==
    IF d.rem = <<>> THEN [d EXCEPT !.q = <<0>> \o @]
    ELSE NextLimb[d, <<0>> \o d.rem, b,
                  FitDigit[<<0>> \o d.rem, b,
                           Min(Limb - 1, (BigLimb(d.rem, 4) * Limb + BigLimb(d.rem, 3))
                                         \div b[4])]]

\* the root of an integer n, rounded down, for lo <= root <= hi
ISqrtBetween[n \in Nat, lo \in Nat, hi \in Nat] ==
    IF lo = hi THEN lo
    ELSE IF ((lo + hi + 1) \div 2) * ((lo + hi + 1) \div 2) <= n
    THEN ISqrtBetween[n, (lo + hi + 1) \div 2, hi]
    ELSE ISqrtBetween[n, lo, (lo + hi + 1) \div 2 - 1]

\* the integer nearest to the root of M54 / 4, starting from a guess r:
\* the r with (2r - 1)^2 <= M54 <= (2r + 1)^2
NearestRoot[r \in Big, M54 \in Big] ==
    IF BigCmp[BigSquare[BigAdd[BigAdd[r, r], <<1>>]], M54] < 0
    THEN NearestRoot[BigAdd[r, <<1>>], M54]
    ELSE IF BigCmp[BigSquare[BigSub[BigAdd[r, r], <<1>>]], M54] > 0
    THEN NearestRoot[BigSub[r, <<1>>], M54]
    ELSE r

(***************************************************************************)
(* IEEE 754 double arithmetic.  The operations are functions: an operand   *)
(* is a value, computed once, before the operation is applied to it.       *)
(***************************************************************************)
Double == [neg : BOOLEAN, exp : Int, man : Big]

Zero == [neg |-> FALSE, exp |-> 0, man |-> <<>>]

IsZero(a) == a.man = <<>>

\* a significand q of 53 or 54 bits brought to 53
Carried[neg \in BOOLEAN, q \in Big, E \in Int] ==
    IF BigBits[q] = 54
    THEN [neg |-> neg, exp |-> E + 1, man |-> BigShr[q, 1]]
    ELSE [neg |-> neg, exp |-> E, man |-> q]

\* M, of 53 + sh bits, with its lowest sh bits rounded off: to the nearest,
\* and to the even one of two as near
RoundedOff[neg \in BOOLEAN, M \in Big, q \in Big, E \in Int, sticky \in BOOLEAN, sh \in Nat] ==
    Carried[neg,
            IF /\ BigBit[M, sh - 1] = 1
               /\ (sticky \/ ~BigLowZero[M, sh - 1] \/ BigIsOdd(q))
            THEN BigAdd[q, <<1>>] ELSE q,
            E + sh]

\* M of n bits
RoundBits[neg \in BOOLEAN, M \in Big, E \in Int, sticky \in BOOLEAN, n \in Nat] ==
    IF n <= 53
    THEN [neg |-> neg, exp |-> E - (53 - n), man |-> BigShl[M, 53 - n]]
    ELSE RoundedOff[neg, M, BigShr[M, n - 53], E, sticky, n - 53]

\* The double nearest to (-1)^neg * (M + r) * 2^E, ties to even, where
\* 0 <= r < 1 and r > 0 iff sticky.  M has more than 53 bits when sticky.
Round[neg \in BOOLEAN, M \in Big, E \in Int, sticky \in BOOLEAN] ==
    IF M = <<>> THEN Zero ELSE RoundBits[neg, M, E, sticky, BigBits[M]]

\* the number an integer literal or an integer count denotes
FromInt[n \in Int] == Round[n < 0, BigFromInt(IF n < 0 THEN -n ELSE n), 0, FALSE]

\* unary minus
Neg[a \in Double] == IF IsZero(a) THEN a ELSE [a EXCEPT !.neg = ~a.neg]

\* Math.abs
MathAbs(a) == [a EXCEPT !.neg = FALSE]

\* the order of |a| and |b|: -1, 0 or 1
CmpMag[a \in Double, b \in Double] ==
    IF IsZero(a) THEN (IF IsZero(b) THEN 0 ELSE -1)
    ELSE IF IsZero(b) THEN 1
    ELSE IF a.exp > b.exp THEN 1
    ELSE IF a.exp < b.exp THEN -1
    ELSE BigCmp[a.man, b.man]

\* the order of a and b: -1, 0 or 1
Cmp[a \in Double, b \in Double] ==
    IF IsZero(a) /\ IsZero(b) THEN 0
    ELSE IF IsZero(a) THEN (IF b.neg THEN 1 ELSE -1)
    ELSE IF IsZero(b) THEN (IF a.neg THEN -1 ELSE 1)
    ELSE IF a.neg # b.neg THEN (IF a.neg THEN -1 ELSE 1)
    ELSE IF a.neg THEN CmpMag[b, a] ELSE CmpMag[a, b]

\* a < b, a <= b, a > b, a >= b
Lt(a, b) == Cmp[a, b] < 0

Le(a, b) == Cmp[a, b] <= 0

Gt(a, b) == Cmp[a, b] > 0

Ge(a, b) == Cmp[a, b] >= 0

\* Math.min and Math.max
MathMin[a \in Double, b \in Double] == IF Le(a, b) THEN a ELSE b

MathMax[a \in Double, b \in Double] == IF Ge(a, b) THEN a ELSE b

\* a * b
Mul[a \in Double, b \in Double] ==
    IF IsZero(a) \/ IsZero(b) THEN Zero
    ELSE Round[a.neg # b.neg, BigMul[a.man, b.man], a.exp + b.exp, FALSE]

\* M + m when the terms have the same sign, M - m >= 0 when they have not
BigCombine[M \in Big, m \in Big, same \in BOOLEAN] ==
    IF same THEN BigAdd[M, m] ELSE BigSub[M, m]

\* big + small for |big| >= |small|, neither zero: the sum has the sign of
\* big and the magnitude |big| + |small| or |big| - |small|; a term more
\* than 60 binary places below the other is below half a unit of its last
\* place
AddOrdered[big \in Double, small \in Double] ==
    IF big.exp - small.exp >= 60 THEN big
    ELSE Round[big.neg,
               BigCombine[BigShl[big.man, big.exp - small.exp], small.man,
                          big.neg = small.neg],
               small.exp, FALSE]

\* a + b
Add[a \in Double, b \in Double] ==
    IF IsZero(a) THEN b
    ELSE IF IsZero(b) THEN a
    ELSE AddOrdered[IF CmpMag[a, b] >= 0 THEN a ELSE b,
                    IF CmpMag[a, b] >= 0 THEN b ELSE a]

\* a - b
Sub(a, b) == Add[a, Neg[b]]

\* the first limb of the quotient of an by bn, for bn <= an < 2 bn or an < bn
DivFirst[an \in Big, bn \in Big] ==
    IF BigCmp[an, bn] >= 0 THEN [q |-> <<1>>, rem |-> BigSub[an, bn]]
    ELSE [q |-> <<0>>, rem |-> an]

\* the quotient d.q, of 57 bits, and whether anything is left
DivRound[neg \in BOOLEAN, d \in Division, E \in Int] ==
    Round[neg, BigTrim[d.q], E, d.rem # <<>>]

\* n more limbs of a long division by b
DivLimbs[d \in Division, b \in Big, n \in Nat] ==
    IF n = 0 THEN d ELSE DivLimbs[DivLimb[d, b], b, n - 1]

\* 57 bits of the quotient of an by bn, both of 56 bits, by long division
Quotient[neg \in BOOLEAN, an \in Big, bn \in Big, E \in Int] ==
    DivRound[neg, DivLimbs[DivFirst[an, bn], bn, 4], E]

\* a / b for b # 0
Div[a \in Double, b \in Double] ==
    IF IsZero(a) THEN Zero
    ELSE Quotient[a.neg # b.neg, BigShl[a.man, 3], BigShl[b.man, 3],
                  a.exp - b.exp - 56]

Halved[a \in Double] == IF IsZero(a) THEN a ELSE [a EXCEPT !.exp = a.exp - 1]

\* n steps of Newton's iteration towards the root of A, from x
Newton[A \in Double, x \in Double, n \in Nat] ==
    IF n = 0 THEN x ELSE Newton[A, Halved[Add[x, Div[A, x]]], n - 1]

\* a >= 0 is M * 2^(2k) with 2^52 <= M < 2^54
RootSignificand(a) == IF a.exp % 2 # 0 THEN BigAdd[a.man, a.man] ELSE a.man

\* M * 2^52 as a number
RootScaled(a) ==
    [neg |-> FALSE, exp |-> IF a.exp % 2 # 0 THEN 53 ELSE 52, man |-> a.man]

\* the root of the 28 highest bits of M * 2^52, as a first guess
RootGuess[M \in Big] ==
    [(FromInt[ISqrtBetween[BigToInt[BigShr[M, 26]], 8192, 16383]]) EXCEPT !.exp = @ + 39]

\* the significand of a guess x for a root between 2^52 and 2^53
RootMantissa[x \in Double] ==
    IF x.exp > 0 THEN BigSub[BigShl[<<1>>, 53], <<1>>]
    ELSE IF x.exp < 0 THEN BigShl[<<1>>, 52]
    ELSE x.man

\* Math.sqrt(a) for a >= 0.  With a = M * 2^(2k), 2^52 <= M < 2^54, the
\* result is r * 2^(k - 26) for the integer r nearest to sqrt(M * 2^52)
\* (never half-way between two); r is found from two Newton steps and
\* settled by comparing (2r - 1)^2 and (2r + 1)^2 with M * 2^54.
Root[M \in Big, A \in Double, E \in Int] ==
    Round[FALSE,
          NearestRoot[RootMantissa[Newton[A, RootGuess[M], 2]], BigShl[M, 54]],
          E, FALSE]

Sqrt[a \in Double] ==
    IF IsZero(a) THEN Zero
    ELSE Root[RootSignificand(a), RootScaled(a),
              (IF a.exp % 2 # 0 THEN a.exp - 1 ELSE a.exp) \div 2 - 26]

\* the double a decimal literal n / d denotes (0.3 is Dec(3, 10))
Dec(n, d) == Div[FromInt[n], FromInt[d]]

\* the number a whole number n denotes
Num(n) == FromInt[n]

\* x || 0 on an optional number
OrZero(opt) == IF opt = <<>> THEN Zero ELSE opt[1]

\* values.reduce((sum, val) => sum + val, 0), from left to right
SumFrom[s \in Seq(Double), i \in Nat, acc \in Double] ==
    IF i > Len(s) THEN acc ELSE SumFrom[s, i + 1, Add[acc, s[i]]]

SumSeq(s) == SumFrom[s, 1, Zero]

(***************************************************************************)
(* Math.acos: __ieee754_acos of fdlibm (e_acos.c)                          *)
(***************************************************************************)
\* Math.PI, 3.141592653589793
MATH_PI == [neg |-> FALSE, exp |-> -51, man |-> <<11544, 4368, 8117, 1608>>]

\* 1.57079632679489655800e+00
pio2_hi == [neg |-> FALSE, exp |-> -52, man |-> <<11544, 4368, 8117, 1608>>]

\* 6.12323399573676603587e-17
pio2_lo == [neg |-> FALSE, exp |-> -106, man |-> <<7175, 3153, 8803, 1129>>]

\* 1.66666666666666657415e-01
pS0 == [neg |-> FALSE, exp |-> -55, man |-> <<5461, 5461, 5461, 1365>>]

\* -3.25565818622400915405e-01
pS1 == [neg |-> TRUE, exp |-> -54, man |-> <<12157, 4013, 8480, 1333>>]

\* 2.01212532134862925881e-01
pS2 == [neg |-> FALSE, exp |-> -55, man |-> <<1109, 14881, 5456, 1648>>]

\* -4.00555345006794114027e-02
pS3 == [neg |-> TRUE, exp |-> -57, man |-> <<3899, 5538, 8843, 1312>>]

\* 7.91534994289814532176e-04
pS4 == [neg |-> FALSE, exp |-> -63, man |-> <<12936, 5126, 15879, 1659>>]

\* 3.47933107596021167570e-05
pS5 == [neg |-> FALSE, exp |-> -67, man |-> <<14089, 14327, 7696, 1167>>]

\* -2.40339491173441421878e+00
qS1 == [neg |-> TRUE, exp |-> -51, man |-> <<11595, 12840, 8817, 1230>>]

\* 2.02094576023350569471e+00
qS2 == [neg |-> FALSE, exp |-> -51, man |-> <<2760, 12646, 11865, 1034>>]

\* -6.88283971605453293030e-01
qS3 == [neg |-> TRUE, exp |-> -53, man |-> <<345, 11828, 9921, 1409>>]

\* 7.70381505559019352791e-02
qS4 == [neg |-> FALSE, exp |-> -56, man |-> <<4738, 1210, 3163, 1262>>]

\* c[i]+z*(c[i+1]+z*( ... +z*c[n])), from the innermost product outwards
Horner[z \in Double, c \in Seq(Double), i \in Nat] ==
    IF i = Len(c) THEN c[i] ELSE Add[c[i], Mul[z, Horner[z, c, i + 1]]]

\* p = z*(pS0+z*(pS1+z*(pS2+z*(pS3+z*(pS4+z*pS5)))))
AcosP[z \in Double] == Mul[z, Horner[z, <<pS0, pS1, pS2, pS3, pS4, pS5>>, 1]]

\* q = one+z*(qS1+z*(qS2+z*(qS3+z*qS4)))
AcosQ[z \in Double] == Horner[z, <<Num(1), qS1, qS2, qS3, qS4>>, 1]

\* r = p/q
AcosR[z \in Double] == Div[AcosP[z], AcosQ[z]]

\* the binary exponent of a number that is not zero: 2^e <= |a| < 2^(e + 1)
Exponent(a) == a.exp + 52

\* the high word of |x| is at most 0x3c600000: |x| < 2^-57 * (1 + 2^-20)
AcosTiny(x) ==
    \/ IsZero(x)
    \/ Exponent(x) < -57
    \/ Exponent(x) = -57 /\ BigCmp[x.man, <<0, 0, 16, 1024>>] < 0

\* SET_LOW_WORD(df, 0): the low 32 bits of the significand cleared
LowWordCleared[a \in Double] ==
    IF IsZero(a) THEN a
    ELSE [a EXCEPT !.man = <<0, 0, a.man[3] - (a.man[3] % 16), a.man[4]>>]

\* |x| < 0.5, r = R(x*x): pio2_hi - (x - (pio2_lo-r*x))
AcosSmall[x \in Double, r \in Double] ==
    Sub(pio2_hi, Sub(x, Sub(pio2_lo, Mul[r, x])))

\* x < -0.5, z = (one+x)*0.5, s = sqrt(z), r = R(z): w = r*s-pio2_lo,
\* pi - 2.0*(s+w)
AcosBelow[s \in Double, r \in Double] ==
    Sub(MATH_PI, Mul[Num(2), Add[s, Sub(Mul[r, s], pio2_lo)]])

\* x > 0.5, z = (one-x)*0.5, s = sqrt(z), df = s with its low word cleared,
\* r = R(z): c = (z-df*df)/(s+df), w = r*s+c, 2.0*(df+w)
AcosAbove[z \in Double, s \in Double, df \in Double, r \in Double] ==
    Mul[Num(2), Add[df, Add[Mul[r, s], Div[Sub(z, Mul[df, df]), Add[s, df]]]]]

\* |x| < 0.5: the high word of |x| is below 0x3fe00000
AcosIsSmall(x) == IsZero(x) \/ Exponent(x) < -1

\* the three branches of the routine for |x| < 1, with z, s = sqrt(z) and
\* r = R(z) of the branch taken
AcosBranch[x \in Double, z \in Double, s \in Double, r \in Double] ==
    IF AcosIsSmall(x) THEN AcosSmall[x, r]
    ELSE IF x.neg THEN AcosBelow[s, r]
    ELSE AcosAbove[z, s, LowWordCleared[s], r]

\* s is only taken for |x| >= 0.5
AcosRooted[x \in Double, z \in Double] ==
    AcosBranch[x, z, IF AcosIsSmall(x) THEN Zero ELSE Sqrt[z], AcosR[z]]

\* z = x*x for |x| < 0.5, (one+x)*0.5 for x < -0.5 and (one-x)*0.5 for
\* x > 0.5
AcosZ[x \in Double] ==
    IF AcosIsSmall(x) THEN Mul[x, x]
    ELSE Mul[Add[Num(1), IF x.neg THEN x ELSE Neg[x]], Halved[Num(1)]]

Acos[x \in Double] ==
    IF ~IsZero(x) /\ Exponent(x) >= 0
    THEN \* |x| = 1 (the caller clamps): acos(1) = 0, acos(-1) = pi + 2 * pio2_lo
         IF x.neg THEN Add[MATH_PI, Mul[Num(2), pio2_lo]] ELSE Zero
    ELSE IF AcosTiny(x) THEN Add[pio2_hi, pio2_lo]
    ELSE AcosRooted[x, AcosZ[x]]

(***************************************************************************)
(* Number.prototype.toFixed(1)                                             *)
(***************************************************************************)
\* the remainder, on division by d, of the number that the limbs of a from
\* the i-th upward form
BigRemFrom[a \in Big, d \in Nat, i \in Nat] ==
    IF i > Len(a) THEN 0 ELSE (BigRemFrom[a, d, i + 1] * Limb + a[i]) % d

\* a \div d for 0 < d < 2^14
BigDivSmall[a \in Big, d \in Nat] ==
    BigTrim[[i \in 1 .. Len(a) |-> (BigRemFrom[a, d, i + 1] * Limb + a[i]) \div d]]

\* the decimal digits of a, the most significant first; none for 0
DecimalDigits[a \in Big] ==
    IF a = <<>> THEN <<>>
    ELSE Append(DecimalDigits[BigDivSmall[a, 10]], BigRemFrom[a, 10, 1])

\* the number n of tenths that x.toFixed(1) prints for |x| = m * 2^e: the n
\* for which n / 10 - |x| is closest to zero, the larger n when two are as
\* close.  For e < 0 this is (10 m + 2^(-e - 1)) \div 2^(-e).
Tenths[x \in Double] ==
    IF IsZero(x) THEN <<>>
    ELSE IF x.exp >= 0 THEN BigShl[BigMul[<<10>>, x.man], x.exp]
    ELSE BigShr[BigAdd[BigMul[<<10>>, x.man], BigShl[<<1>>, -x.exp - 1]], -x.exp]

\* x.toFixed(1) for |x| < 10^21 (from there on toFixed prints an exponent):
\* whether the string begins with "-", and its digits, of which the last
\* follows the decimal point and at least one precedes it.  68.7495 gives
\* <<6, 8, 7>>, 0.04 gives <<0, 0>>.
ToFixed1[x \in Double] ==
    LET digits == DecimalDigits[Tenths[x]]
    IN  [neg |-> x.neg,
         digits |-> IF Len(digits) >= 2 THEN digits
                    ELSE IF Len(digits) = 1 THEN <<0>> \o digits ELSE <<0, 0>>]

(***************************************************************************)
(* Landmark indices                                                        *)
(***************************************************************************)
POSE_LANDMARKS ==
    [NOSE |-> 0, LEFT_EAR |-> 7, RIGHT_EAR |-> 8,
     LEFT_SHOULDER |-> 11, RIGHT_SHOULDER |-> 12,
     LEFT_ELBOW |-> 13, RIGHT_ELBOW |-> 14,
     LEFT_WRIST |-> 15, RIGHT_WRIST |-> 16,
     LEFT_HIP |-> 23, RIGHT_HIP |-> 24,
     LEFT_KNEE |-> 25, RIGHT_KNEE |-> 26,
     LEFT_ANKLE |-> 27, RIGHT_ANKLE |-> 28]

LandmarkIndices == 0 .. 32

(***************************************************************************)
(* Geometry kernel                                                         *)
(***************************************************************************)
\* a point: a landmark, or a literal {x, y, z}
Point ==
    [x : Double, y : Double, z : Double]
        \cup [x : Double, y : Double, z : Double, visibility : Seq(Double)]

\* lines 115-119 of calculateAngle: the angle, in degrees, between two
\* vectors of the given dot product and magnitudes
AngleBetween[dotProduct \in Double, magnitude1 \in Double, magnitude2 \in Double] ==
    IF IsZero(magnitude1) \/ IsZero(magnitude2) THEN Zero
    ELSE LET cosAngle == Div[dotProduct, Mul[magnitude1, magnitude2]]
             angle == Acos[MathMax[Num(-1), MathMin[Num(1), cosAngle]]]
         IN  Div[Mul[angle, Num(180)], MATH_PI]

\* lines 111-113 of calculateAngle: the dot product and the magnitudes of
\* the vectors (v1x, v1y) and (v2x, v2y)
VectorAngle[v1x \in Double, v1y \in Double, v2x \in Double, v2y \in Double] ==
    AngleBetween[Add[Mul[v1x, v2x], Mul[v1y, v2y]],
                 Sqrt[Add[Mul[v1x, v1x], Mul[v1y, v1y]]],
                 Sqrt[Add[Mul[v2x, v2x], Mul[v2y, v2y]]]]

\* lines 102-109 of calculateAngle: the vectors from point2 to point1 and
\* from point2 to point3
PointAngle[point1 \in Point, point2 \in Point, point3 \in Point] ==
    VectorAngle[Sub(point1.x, point2.x), Sub(point1.y, point2.y),
                Sub(point3.x, point2.x), Sub(point3.y, point2.y)]

\* mutant: only the first vector is tested for zero length; a zero second
\* vector is given a right angle
calculateAngle_FirstVectorOnly(point1, point2, point3) ==
    LET v1x == Sub(point1.x, point2.x)
        v1y == Sub(point1.y, point2.y)
        v2x == Sub(point3.x, point2.x)
        v2y == Sub(point3.y, point2.y)
        dotProduct == Add[Mul[v1x, v2x], Mul[v1y, v2y]]
        magnitude1 == Sqrt[Add[Mul[v1x, v1x], Mul[v1y, v1y]]]
        magnitude2 == Sqrt[Add[Mul[v2x, v2x], Mul[v2y, v2y]]]
        cosAngle == Div[dotProduct, Mul[magnitude1, magnitude2]]
        angle == Acos[MathMax[Num(-1), MathMin[Num(1), cosAngle]]]
    IN  IF IsZero(magnitude1) THEN Zero
        ELSE IF IsZero(magnitude2) THEN Num(90)
        ELSE Div[Mul[angle, Num(180)], MATH_PI]

calculateAngle(point1, point2, point3) == PointAngle[point1, point2, point3]

\* line 125: Math.sqrt(dx * dx + dy * dy)
Distance[dx \in Double, dy \in Double] == Sqrt[Add[Mul[dx, dx], Mul[dy, dy]]]

calculateDistance(point1, point2) ==
    Distance[Sub(point1.x, point2.x), Sub(point1.y, point2.y)]

\* lines 129-134: the mean of each coordinate and the smaller visibility
Midpoint[point1 \in Point, point2 \in Point] ==
    [x |-> Div[Add[point1.x, point2.x], Num(2)],
     y |-> Div[Add[point1.y, point2.y], Num(2)],
     z |-> Div[Add[point1.z, point2.z], Num(2)],
     visibility |-> <<MathMin[OrZero(point1.visibility), OrZero(point2.visibility)]>>]

\* mutant: the midpoint takes the first point's visibility
getMidpoint_FirstVisibility(point1, point2) ==
    [x |-> Div[Add[point1.x, point2.x], Num(2)],
     y |-> Div[Add[point1.y, point2.y], Num(2)],
     z |-> Div[Add[point1.z, point2.z], Num(2)],
     visibility |-> <<OrZero(point1.visibility)>>]

getMidpoint(point1, point2) == Midpoint[point1, point2]

\* mutant: the threshold itself no longer counts as visible
isLandmarkVisible_Exclusive(landmark, threshold) ==
    Gt(OrZero(landmark.visibility), threshold)

isLandmarkVisible(landmark, threshold) == Ge(OrZero(landmark.visibility), threshold)

\* the threshold every caller passes, 0.3
VisibilityThreshold == Dec(3, 10)

(***************************************************************************)
(* Classification                                                          *)
(***************************************************************************)
\* mutant: the yellow interval is tested before the green one
classify_YellowFirst(value, bands) ==
    IF Ge(value, bands.yellow[1]) /\ Le(value, bands.yellow[2]) THEN "yellow"
    ELSE IF Ge(value, bands.green[1]) /\ Le(value, bands.green[2]) THEN "green"
    ELSE "red"

\* mutant: the green interval is open at its lower end
classify_OpenGreen(value, bands) ==
    IF Gt(value, bands.green[1]) /\ Le(value, bands.green[2]) THEN "green"
    ELSE IF Ge(value, bands.yellow[1]) /\ Le(value, bands.yellow[2]) THEN "yellow"
    ELSE "red"

classify(value, bands) ==
    IF Ge(value, bands.green[1]) /\ Le(value, bands.green[2]) THEN "green"
    ELSE IF Ge(value, bands.yellow[1]) /\ Le(value, bands.yellow[2]) THEN "yellow"
    ELSE "red"

\* mutant: 110 falls on the upper shoulder
classifyElbow_HalfOpen(value) ==
    IF Ge(value, Num(90)) /\ Lt(value, Num(110)) THEN "green"
    ELSE IF (Ge(value, Num(75)) /\ Lt(value, Num(90)))
            \/ (Ge(value, Num(110)) /\ Le(value, Num(125)))
         THEN "yellow"
    ELSE "red"

classifyElbow(value) ==
    IF Ge(value, Num(90)) /\ Le(value, Num(110)) THEN "green"
    ELSE IF (Ge(value, Num(75)) /\ Lt(value, Num(90)))
            \/ (Gt(value, Num(110)) /\ Le(value, Num(125)))
         THEN "yellow"
    ELSE "red"

classifyKnee(value) ==
    IF Ge(value, Num(80)) /\ Le(value, Num(110)) THEN "green"
    ELSE IF (Ge(value, Num(70)) /\ Lt(value, Num(80)))
            \/ (Gt(value, Num(110)) /\ Le(value, Num(120)))
         THEN "yellow"
    ELSE "red"

\* mutant: the sign of the tilt is kept
classifyPelvicTilt_Signed(value) ==
    IF Le(value, Num(10)) THEN "green"
    ELSE IF Le(value, Num(20)) THEN "yellow"
    ELSE "red"

classifyPelvicTilt(value) ==
    LET absValue == MathAbs(value)
    IN  IF Le(absValue, Num(10)) THEN "green"
        ELSE IF Le(absValue, Num(20)) THEN "yellow"
        ELSE "red"

METRIC_THRESHOLDS ==
    [cvaDeg |-> [green |-> <<Num(50), Num(180)>>, yellow |-> <<Num(40), Num(50)>>,
                 red |-> <<Num(0), Num(40)>>],
     trunkDeg |-> [green |-> <<Num(0), Num(20)>>, yellow |-> <<Num(20), Num(30)>>,
                   red |-> <<Num(30), Num(180)>>],
     pelvicTiltDegDelta |-> [green |-> <<Num(-10), Num(10)>>,
                             yellow |-> <<Num(-20), Num(-10)>>,
                             red |-> <<Num(-180), Num(-20)>>],
     elbowDeg |-> [green |-> <<Num(90), Num(110)>>, yellow |-> <<Num(75), Num(90)>>,
                   red |-> <<Num(0), Num(75)>>],
     kneeDeg |-> [green |-> <<Num(80), Num(110)>>, yellow |-> <<Num(70), Num(80)>>,
                  red |-> <<Num(0), Num(70)>>],
     neckVarDegPerMin |-> [green |-> <<Num(0), Num(6)>>, yellow |-> <<Num(6), Num(10)>>,
                           red |-> <<Num(10), Num(180)>>]]

(***************************************************************************)
(* Sitting metrics                                                         *)
(***************************************************************************)
\* mutant: sigma does not depend on visibility
createMetric_FixedSigma(value, visible, confidence) ==
    [value |-> value,
     sigma |-> Dec(1, 10),
     level |-> IF visible THEN classify(value, METRIC_THRESHOLDS.cvaDeg) ELSE "na",
     visible |-> visible,
     confidence |-> confidence]

\* the helper of calculateSittingMetrics: the level is always taken from the
\* CVA thresholds, whatever the metric
createMetric(value, visible, confidence) ==
    [value |-> value,
     sigma |-> IF visible THEN Dec(1, 10) ELSE Num(1),
     level |-> IF visible THEN classify(value, METRIC_THRESHOLDS.cvaDeg) ELSE "na",
     visible |-> visible,
     confidence |-> confidence]

\* values.reduce((sum, val) => sum + Math.pow(val - mean, 2), 0), from the
\* i-th value on; the square Math.pow returns is the product of val - mean
\* with itself, rounded once
SumSquaredDeviations[values \in Seq(Double), mean \in Double, i \in Nat, acc \in Double] ==
    IF i > Len(values) THEN acc
    ELSE SumSquaredDeviations[values, mean, i + 1,
             Add[acc, Mul[Sub(values[i], mean), Sub(values[i], mean)]]]

\* lines 502-503: the variance about the mean, and its root
DeviationFrom[values \in Seq(Double), mean \in Double] ==
    LET variance == Div[SumSquaredDeviations[values, mean, 1, Zero],
                        Num(Len(values) - 1)]
    IN  Sqrt[variance]

\* the sample standard deviation
calculateStandardDeviation(values) ==
    IF Len(values) < 2 THEN Zero
    ELSE DeviationFrom[values, Div[SumSeq(values), Num(Len(values))]]

\* mutant: the weights sum to 1.05
weights_Heavy ==
    [head |-> Dec(25, 100), trunk |-> Dec(25, 100), pelvis |-> Dec(15, 100),
     upperLimb |-> Dec(25, 100), lowerBody |-> Dec(15, 100)]

\* the weights of the ergonomic score
weights ==
    [head |-> Dec(25, 100), trunk |-> Dec(25, 100), pelvis |-> Dec(15, 100),
     upperLimb |-> Dec(2, 10), lowerBody |-> Dec(15, 100)]

\* mutant: without a baseline the delta is the tilt itself
PelvicTiltDelta_Absolute(baseline, currentPelvicTilt) ==
    IF baseline # <<>> THEN Sub(currentPelvicTilt, baseline[1].pelvicTilt)
    ELSE currentPelvicTilt

\* const pelvicTiltDelta = baseline ? currentPelvicTilt - baseline.pelvicTilt : 0
PelvicTiltDelta(baseline, currentPelvicTilt) ==
    IF baseline # <<>> THEN Sub(currentPelvicTilt, baseline[1].pelvicTilt) ELSE Zero

\* the three values of a sub-score
Best == Num(1)

Middle == Dec(7, 10)

Worst == Dec(4, 10)

\* The entries of scores: 1.0, 0.7 or 0.4 by the metric's value, 0 when the
\* metric is not visible.
headScore(cvaVisible, cvaAngle) ==
    IF cvaVisible
    THEN (IF Ge(cvaAngle, Num(50)) THEN Best
          ELSE IF Ge(cvaAngle, Num(40)) THEN Middle ELSE Worst)
    ELSE Zero

trunkScore(trunkVisible, trunkAngle) ==
    IF trunkVisible
    THEN (IF Le(trunkAngle, Num(20)) THEN Best
          ELSE IF Le(trunkAngle, Num(30)) THEN Middle ELSE Worst)
    ELSE Zero

pelvisScore(pelvicVisible, pelvicTiltDelta) ==
    IF pelvicVisible
    THEN (IF Le(MathAbs(pelvicTiltDelta), Num(10)) THEN Best
          ELSE IF Le(MathAbs(pelvicTiltDelta), Num(20)) THEN Middle ELSE Worst)
    ELSE Zero

\* mutant: the middle bucket of the elbow starts at 70
upperLimbScore_Wide(elbowVisible, elbowAngle) ==
    IF elbowVisible
    THEN (IF Ge(elbowAngle, Num(90)) /\ Le(elbowAngle, Num(110)) THEN Best
          ELSE IF Ge(elbowAngle, Num(70)) /\ Le(elbowAngle, Num(125)) THEN Middle
          ELSE Worst)
    ELSE Zero

upperLimbScore(elbowVisible, elbowAngle) ==
    IF elbowVisible
    THEN (IF Ge(elbowAngle, Num(90)) /\ Le(elbowAngle, Num(110)) THEN Best
          ELSE IF Ge(elbowAngle, Num(75)) /\ Le(elbowAngle, Num(125)) THEN Middle
          ELSE Worst)
    ELSE Zero

lowerBodyScore(kneeVisible, kneeAngle) ==
    IF kneeVisible
    THEN (IF Ge(kneeAngle, Num(80)) /\ Le(kneeAngle, Num(110)) THEN Best
          ELSE IF Ge(kneeAngle, Num(70)) /\ Le(kneeAngle, Num(120)) THEN Middle
          ELSE Worst)
    ELSE Zero

\* (scores.head * weights.head + ... + scores.lowerBody * weights.lowerBody)
\* * 100, summed from left to right
ErgoScore(scores) ==
    Mul[Add[Add[Add[Add[Mul[scores.head, weights.head],
                        Mul[scores.trunk, weights.trunk]],
                    Mul[scores.pelvis, weights.pelvis]],
                Mul[scores.upperLimb, weights.upperLimb]],
            Mul[scores.lowerBody, weights.lowerBody]],
        Num(100)]

\* mutant: ten samples are enough
NeckVarVisible_AtLeast(neckHistory) == Len(neckHistory) >= 10

\* const neckVarVisible = neckHistory.length > 10
NeckVarVisible(neckHistory) == Len(neckHistory) > 10

\* what lines 429-468 measure: each value and whether it is in view
Measured ==
    [cvaVisible : BOOLEAN, cvaAngle : Double,
     trunkVisible : BOOLEAN, trunkAngle : Double,
     pelvicVisible : BOOLEAN, currentPelvicTilt : Double,
     elbowVisible : BOOLEAN, elbowAngle : Double,
     kneeVisible : BOOLEAN, kneeAngle : Double,
     neckVarVisible : BOOLEAN, neckVariability : Double]

\* the scores object of lines 472-480
Scores(m, pelvicTiltDelta) ==
    [head |-> headScore(m.cvaVisible, m.cvaAngle),
     trunk |-> trunkScore(m.trunkVisible, m.trunkAngle),
     pelvis |-> pelvisScore(m.pelvicVisible, pelvicTiltDelta),
     upperLimb |-> upperLimbScore(m.elbowVisible, m.elbowAngle),
     lowerBody |-> lowerBodyScore(m.kneeVisible, m.kneeAngle)]

\* lines 486-495: the object returned
SittingMetrics[m \in Measured, pelvicTiltDelta \in Double, ergoScore \in Double] ==
    [cvaDeg |-> createMetric(m.cvaAngle, m.cvaVisible, Num(1)),
     trunkDeg |-> createMetric(m.trunkAngle, m.trunkVisible, Num(1)),
     pelvicTiltDegDelta |-> createMetric(pelvicTiltDelta, m.pelvicVisible, Num(1)),
     pelvicTiltDeg |-> createMetric(m.currentPelvicTilt, m.pelvicVisible, Num(1)),
     elbowDeg |-> createMetric(m.elbowAngle, m.elbowVisible, Num(1)),
     kneeDeg |-> createMetric(m.kneeAngle, m.kneeVisible, Num(1)),
     neckVarDegPerMin |-> createMetric(m.neckVariability, m.neckVarVisible, Num(1)),
     ergoScore |-> createMetric(ergoScore, TRUE, Dec(8, 10))]

\* lines 471-484: the ergonomic score of the measures
ScoredMetrics[m \in Measured, pelvicTiltDelta \in Double] ==
    SittingMetrics[m, pelvicTiltDelta, ErgoScore(Scores(m, pelvicTiltDelta))]

\* the baseline argument when it is not null
BaselineValue == [pelvicTilt : Double, shoulderWidth : Double]

\* line 454: the pelvic tilt relative to the baseline, if there is one
MeasuredMetrics[m \in Measured, baseline \in Seq(BaselineValue)] ==
    ScoredMetrics[m, PelvicTiltDelta(baseline, m.currentPelvicTilt)]

\* The measures are taken once each, in the order of the source; the
\* pelvic tilt delta, the score and the metrics follow from them.
calculateSittingMetrics(landmarks, baseline, neckHistory) ==
    LET leftShoulder == landmarks[POSE_LANDMARKS.LEFT_SHOULDER]
        rightShoulder == landmarks[POSE_LANDMARKS.RIGHT_SHOULDER]
        leftHip == landmarks[POSE_LANDMARKS.LEFT_HIP]
        rightHip == landmarks[POSE_LANDMARKS.RIGHT_HIP]
        leftEar == landmarks[POSE_LANDMARKS.LEFT_EAR]
        rightEar == landmarks[POSE_LANDMARKS.RIGHT_EAR]
        nose == landmarks[POSE_LANDMARKS.NOSE]
        leftElbow == landmarks[POSE_LANDMARKS.LEFT_ELBOW]
        leftWrist == landmarks[POSE_LANDMARKS.LEFT_WRIST]
        leftKnee == landmarks[POSE_LANDMARKS.LEFT_KNEE]
        leftAnkle == landmarks[POSE_LANDMARKS.LEFT_ANKLE]
        vis(l) == isLandmarkVisible(l, VisibilityThreshold)
        shoulderMidpoint == getMidpoint(leftShoulder, rightShoulder)
        hipMidpoint == getMidpoint(leftHip, rightHip)
        \* 1. craniovertebral angle
        cvaVisible == vis(leftEar) /\ vis(rightEar) /\ vis(leftShoulder) /\ vis(rightShoulder)
        earMidpoint == IF cvaVisible THEN getMidpoint(leftEar, rightEar) ELSE nose
        \* 2. trunk angle
        trunkVisible == vis(leftShoulder) /\ vis(rightShoulder) /\ vis(leftHip) /\ vis(rightHip)
        \* 4. pelvic tilt, relative to the baseline
        pelvicVisible == trunkVisible
        \* 5. elbow angle
        elbowVisible == vis(leftShoulder) /\ vis(leftElbow) /\ vis(leftWrist)
        \* 6. knee angle
        kneeVisible == vis(leftHip) /\ vis(leftKnee) /\ vis(leftAnkle)
        \* 7. neck variability
        neckVarVisible == NeckVarVisible(neckHistory)
        measured ==
            [cvaVisible |-> cvaVisible,
             cvaAngle |->
                 IF cvaVisible
                 THEN calculateAngle([shoulderMidpoint EXCEPT !.y = Sub(@, Num(1))],
                                     shoulderMidpoint, earMidpoint)
                 ELSE Zero,
             trunkVisible |-> trunkVisible,
             trunkAngle |->
                 IF trunkVisible
                 THEN calculateAngle([shoulderMidpoint EXCEPT !.y = Add[@, Num(1)]],
                                     shoulderMidpoint, hipMidpoint)
                 ELSE Zero,
             pelvicVisible |-> pelvicVisible,
             currentPelvicTilt |->
                 IF pelvicVisible
                 THEN calculateAngle([x |-> Zero, y |-> Zero, z |-> Zero],
                                     leftHip, rightHip)
                 ELSE Zero,
             elbowVisible |-> elbowVisible,
             elbowAngle |->
                 IF elbowVisible
                 THEN calculateAngle(leftShoulder, leftElbow, leftWrist) ELSE Zero,
             kneeVisible |-> kneeVisible,
             kneeAngle |->
                 IF kneeVisible
                 THEN calculateAngle(leftHip, leftKnee, leftAnkle) ELSE Zero,
             neckVarVisible |-> neckVarVisible,
             neckVariability |->
                 IF neckVarVisible
                 THEN Mul[calculateStandardDeviation(neckHistory), Num(60)]
                 ELSE Zero]
    IN  MeasuredMetrics[measured, baseline]

(***************************************************************************)
(* Frame-level posture assessment                                          *)
(***************************************************************************)
\* a message; arg is <<>> or <<trunkFlexion.toFixed(1)>>, the sign and the
\* digits of the string ("68.7" is [neg |-> FALSE, digits |-> <<6, 8, 7>>])
Message(text, arg) == [text |-> text, arg |-> arg]

\* mutant: a posture that needs improvement is given medium severity
ClassifyPosture_SevereBorderline(spineVisible, trunkFlexion) ==
    IF ~spineVisible
    THEN [status |-> "borderline", severity |-> "low",
          message |-> Message("Spine not in view", <<>>)]
    ELSE IF Le(trunkFlexion, Num(15))
    THEN [status |-> "good", severity |-> "low",
          message |-> Message("Good posture!", <<>>)]
    ELSE IF Gt(trunkFlexion, Num(25))
    THEN [status |-> "slouching",
          severity |-> IF Gt(trunkFlexion, Num(35)) THEN "high" ELSE "medium",
          message |-> Message("Slouching detected", <<ToFixed1[trunkFlexion]>>)]
    ELSE [status |-> "borderline", severity |-> "medium",
          message |-> Message("Posture needs improvement", <<>>)]

\* mutant: the trunk flexion is looked at before the spine's visibility
ClassifyPosture_FlexionFirst(spineVisible, trunkFlexion) ==
    IF Le(trunkFlexion, Num(15))
    THEN [status |-> "good", severity |-> "low",
          message |-> Message("Good posture!", <<>>)]
    ELSE IF ~spineVisible
    THEN [status |-> "borderline", severity |-> "low",
          message |-> Message("Spine not in view", <<>>)]
    ELSE IF Gt(trunkFlexion, Num(25))
    THEN [status |-> "slouching",
          severity |-> IF Gt(trunkFlexion, Num(35)) THEN "high" ELSE "medium",
          message |-> Message("Slouching detected", <<ToFixed1[trunkFlexion]>>)]
    ELSE [status |-> "borderline", severity |-> "low",
          message |-> Message("Posture needs improvement", <<>>)]

\* lines 219-235 of analyzePosture
ClassifyPosture(spineVisible, trunkFlexion) ==
    IF ~spineVisible
    THEN [status |-> "borderline", severity |-> "low",
          message |-> Message("Spine not in view", <<>>)]
    ELSE IF Le(trunkFlexion, Num(15))
    THEN [status |-> "good", severity |-> "low",
          message |-> Message("Good posture!", <<>>)]
    ELSE IF Gt(trunkFlexion, Num(25))
    THEN [status |-> "slouching",
          severity |-> IF Gt(trunkFlexion, Num(35)) THEN "high" ELSE "medium",
          message |-> Message("Slouching detected", <<ToFixed1[trunkFlexion]>>)]
    ELSE [status |-> "borderline", severity |-> "low",
          message |-> Message("Posture needs improvement", <<>>)]

\* mutant: two visible key landmarks are enough
LowConfidence_Two(confidence) == Lt(confidence, Dec(4, 10))

\* if (confidence < 0.6)
LowConfidence(confidence) == Lt(confidence, Dec(6, 10))

\* lines 206-242: the metrics, the classification and the result
Assessment[confidence \in Double, shoulderWidth \in Double, trunkFlexion \in Double, headNeckAngle \in Double, spineVisible \in BOOLEAN] ==
    LET verdict == ClassifyPosture(spineVisible, trunkFlexion)
    IN  [status |-> verdict.status,
         metrics |-> [headNeckAngle |-> headNeckAngle,
                      trunkFlexion |-> trunkFlexion,
                      shoulderWidth |-> shoulderWidth,
                      confidence |-> confidence,
                      spineVisible |-> spineVisible],
         severity |-> verdict.severity,
         message |-> verdict.message]

\* lines 158-170: the result when too few key landmarks are in view
Insufficient[confidence \in Double] ==
    [status |-> "borderline",
     metrics |-> [headNeckAngle |-> Zero, trunkFlexion |-> Zero,
                  shoulderWidth |-> Zero, confidence |-> confidence,
                  spineVisible |-> FALSE],
     severity |-> "low",
     message |-> Message("Insufficient pose visibility for analysis", <<>>)]

\* The confidence is computed first; when it is high enough the three
\* measures are taken, once each, and the result is built from them.
analyzePosture(landmarks) ==
    LET leftShoulder == landmarks[POSE_LANDMARKS.LEFT_SHOULDER]
        rightShoulder == landmarks[POSE_LANDMARKS.RIGHT_SHOULDER]
        leftHip == landmarks[POSE_LANDMARKS.LEFT_HIP]
        rightHip == landmarks[POSE_LANDMARKS.RIGHT_HIP]
        nose == landmarks[POSE_LANDMARKS.NOSE]
        leftEar == landmarks[POSE_LANDMARKS.LEFT_EAR]
        rightEar == landmarks[POSE_LANDMARKS.RIGHT_EAR]
        vis(l) == isLandmarkVisible(l, VisibilityThreshold)
        keyLandmarks == <<leftShoulder, rightShoulder, leftHip, rightHip, nose>>
        visibleLandmarks == {i \in 1 .. 5 : vis(keyLandmarks[i])}
        confidence == Div[Num(Cardinality(visibleLandmarks)), Num(Len(keyLandmarks))]
        shoulderMidpoint == getMidpoint(leftShoulder, rightShoulder)
        hipMidpoint == getMidpoint(leftHip, rightHip)
        spineMidpoint == getMidpoint(shoulderMidpoint, hipMidpoint)
        verticalUp == [shoulderMidpoint EXCEPT !.y = Sub(@, Num(1))]
        spineVisible == vis(leftShoulder) /\ vis(rightShoulder)
                        /\ vis(leftHip) /\ vis(rightHip)
        headCenter == IF vis(leftEar) /\ vis(rightEar)
                      THEN getMidpoint(leftEar, rightEar) ELSE nose
    IN  IF LowConfidence(confidence) THEN Insufficient[confidence]
        ELSE Assessment[confidence,
                        calculateDistance(leftShoulder, rightShoulder),
                        IF spineVisible
                        THEN calculateAngle([spineMidpoint EXCEPT !.y = Add[@, Num(1)]],
                                            spineMidpoint, hipMidpoint)
                        ELSE Zero,
                        calculateAngle(verticalUp, shoulderMidpoint, headCenter),
                        spineVisible]

(***************************************************************************)
(* Low-pass and One-Euro filters.  A filter is a record of its fields; an  *)
(* update returns the new filter and the value the method returns.         *)
(***************************************************************************)
NewLowPassFilter(a) == [y |-> Zero, alpha |-> a, hasLast |-> FALSE]

\* mutant: both terms of the blend carry the weight alpha
LowPassFilter_update_SameWeight(f, x) ==
    LET y == IF ~f.hasLast THEN x
             ELSE Add[Mul[f.alpha, x], Mul[f.alpha, f.y]]
    IN  [filter |-> [f EXCEPT !.y = y, !.hasLast = TRUE], value |-> y]

\* this.y = this.alpha * x + (1 - this.alpha) * this.y
LowPassFilter_update(f, x) ==
    LET y == IF ~f.hasLast THEN x
             ELSE Add[Mul[f.alpha, x], Mul[Sub(Num(1), f.alpha), f.y]]
    IN  [filter |-> [f EXCEPT !.y = y, !.hasLast = TRUE], value |-> y]

\* mutant: the filter still counts as having a last value
LowPassFilter_reset_KeepsLast(f) == [f EXCEPT !.y = Zero]

LowPassFilter_reset(f) == [f EXCEPT !.y = Zero, !.hasLast = FALSE]

\* OneEuroFilter.alpha(cutoff, freq)
alpha(cutoff, freq) ==
    LET te == Div[Num(1), freq]
        tau == Div[Num(1), Mul[Mul[Num(2), MATH_PI], cutoff]]
    IN  Div[Num(1), Add[Num(1), Div[tau, te]]]

\* new OneEuroFilter(): freq 30, minCutoff 1.0, beta 0.007, dcutoff 1.0
NewOneEuroFilter ==
    [minCutoff |-> Num(1), beta |-> Dec(7, 1000), dcutoff |-> Num(1),
     x |-> NewLowPassFilter(alpha(Num(1), Num(30))),
     dx |-> NewLowPassFilter(alpha(Num(1), Num(30))),
     lastTime |-> Zero]

\* mutant: the elapsed time is taken even when no time was recorded
OneEuroFilter_dt_Elapsed(f, now) == Div[Sub(now, f.lastTime), Num(1000)]

\* const dt = this.lastTime > 0 ? (now - this.lastTime) / 1000 : 1.0 / 30.0
OneEuroFilter_dt(f, now) ==
    IF Gt(f.lastTime, Zero) THEN Div[Sub(now, f.lastTime), Num(1000)]
    ELSE Div[Num(1), Num(30)]

\* a LowPassFilter, what its update leaves and returns, and a OneEuroFilter
LowPass == [y : Double, alpha : Double, hasLast : BOOLEAN]

Updated == [filter : LowPass, value : Double]

OneEuro ==
    [minCutoff : Double, beta : Double, dcutoff : Double, x : LowPass, dx : LowPass,
     lastTime : Double]

\* the filter an update leaves and the value it returns, once the
\* derivative filter (edx) and the value filter (xs) have been updated;
\* besides them the result carries the call's dt
EuroStored[f \in OneEuro, now \in Double, dt \in Double, edx \in Updated, xs \in Updated] ==
    [filter |-> [f EXCEPT !.lastTime = now, !.x = xs.filter, !.dx = edx.filter],
     value |-> xs.value, dt |-> dt]

\* lines 319-321: the cutoff from the filtered derivative, setAlpha, and
\* the update of the value filter
EuroSmoothed[f \in OneEuro, x \in Double, now \in Double, dt \in Double, edx \in Updated] ==
    LET cutoff == Add[f.minCutoff, Mul[f.beta, MathAbs(edx.value)]]
    IN  EuroStored[f, now, dt, edx,
                   LowPassFilter_update(
                       [f.x EXCEPT !.alpha = alpha(cutoff, Div[Num(1), dt])], x)]

\* lines 313-318: lastTime is set; a dt that is not positive returns the
\* last value; otherwise the derivative is taken and filtered
EuroTimed[f \in OneEuro, x \in Double, now \in Double, dt \in Double] ==
    LET dx == IF f.x.hasLast THEN Div[Sub(x, f.x.y), dt] ELSE Zero
    IN  IF Le(dt, Zero)
        THEN [filter |-> [f EXCEPT !.lastTime = now], value |-> f.x.y, dt |-> dt]
        ELSE EuroSmoothed[f, x, now, dt, LowPassFilter_update(f.dx, dx)]

\* update(x, timestamp?): timestamp is <<>> or <<t>>, perfNow is what
\* performance.now() returns
OneEuroFilter_update(f, x, timestamp, perfNow) ==
    LET now == IF ~IsZero(OrZero(timestamp)) THEN timestamp[1] ELSE perfNow
    IN  EuroTimed[f, x, now, OneEuroFilter_dt(f, now)]

OneEuroFilter_reset(f) ==
    [f EXCEPT !.x = LowPassFilter_reset(f.x), !.dx = LowPassFilter_reset(f.dx),
              !.lastTime = Zero]

(***************************************************************************)
(* Moving-average filter: its buffer and window size                       *)
(***************************************************************************)
NewSmoothingFilter(maxSize) == [buffer |-> <<>>, maxSize |-> maxSize]

\* mutant: nothing is ever evicted
SmoothingFilter_update_Growing(f, value) ==
    LET buffer == Append(f.buffer, value)
    IN  [filter |-> [f EXCEPT !.buffer = buffer],
         value |-> Div[SumSeq(buffer), Num(Len(buffer))]]

SmoothingFilter_update(f, value) ==
    LET pushed == Append(f.buffer, value)
        buffer == IF Len(pushed) > f.maxSize THEN Tail(pushed) ELSE pushed
    IN  [filter |-> [f EXCEPT !.buffer = buffer],
         value |-> Div[SumSeq(buffer), Num(Len(buffer))]]

SmoothingFilter_reset(f) == [f EXCEPT !.buffer = <<>>]

(***************************************************************************)
(* Landmark frames.  The frames the model draws have their coordinates on  *)
(* the fortieths of the normalised image unit: Coord(28) is the number     *)
(* 0.7.  A visibility is <<>> when the field is absent and <<v>> when set. *)
(***************************************************************************)
\* the numbers k / 40, converted once
Coordinates == [k \in -8 .. 60 |-> Dec(k, 40)]

Coord(k) == Coordinates[k]

\* the numbers h / 100, converted once
Hundredths == [h \in 0 .. 100 |-> Dec(h, 100)]

\* a visibility of h hundredths
Vis(h) == <<Hundredths[h]>>

Landmark(x, y, v) == [x |-> Coord(x), y |-> Coord(y), z |-> Zero, visibility |-> v]

\* A seated subject facing the camera (y grows downward): shoulders at
\* (28,16) and (12,16); the ear midpoint, the hip midpoint's x, the right
\* hip's y, the left elbow and wrist, and the left ankle (relative to the
\* knee) are the pose's parameters.
PosePoint(i, ear, hipX, rightHipY, arm, ankle) ==
    CASE i = POSE_LANDMARKS.NOSE -> ear
      [] i = POSE_LANDMARKS.LEFT_EAR -> <<ear[1] + 4, ear[2]>>
      [] i = POSE_LANDMARKS.RIGHT_EAR -> <<ear[1] - 4, ear[2]>>
      [] i = POSE_LANDMARKS.LEFT_SHOULDER -> <<28, 16>>
      [] i = POSE_LANDMARKS.RIGHT_SHOULDER -> <<12, 16>>
      [] i = POSE_LANDMARKS.LEFT_ELBOW -> arm.elbow
      [] i = POSE_LANDMARKS.LEFT_WRIST -> arm.wrist
      [] i = POSE_LANDMARKS.LEFT_HIP -> <<hipX + 4, 32>>
      [] i = POSE_LANDMARKS.RIGHT_HIP -> <<hipX - 4, rightHipY>>
      [] i = POSE_LANDMARKS.LEFT_KNEE -> <<hipX + 12, 32>>
      [] i = POSE_LANDMARKS.LEFT_ANKLE -> <<hipX + 12 + ankle[1], 32 + ankle[2]>>
      [] OTHER -> <<20, 20>>

\* the frame of a pose under a visibility pattern (a function on the indices)
Frame(ear, hipX, rightHipY, arm, ankle, vis) ==
    [i \in LandmarkIndices |->
        LET p == PosePoint(i, ear, hipX, rightHipY, arm, ankle)
        IN  Landmark(p[1], p[2], vis[i])]

Uniform(v) == [i \in LandmarkIndices |-> v]

AllVisible == Uniform(Vis(100))

Arm(elbow, wrist) == [elbow |-> elbow, wrist |-> wrist]

\* the forearm level, at a right angle to the upper arm
RestingArm == Arm(<<28, 24>>, <<36, 24>>)

\* CVA 56.3, trunk 0, elbow 90, knee 90: every sub-metric in its best band
GoodFrame(vis) == Frame(<<32, 8>>, 20, 32, RestingArm, <<0, 8>>, vis)

\* trunk flexion 26.565..., printed as 26.6: slouching
SlouchFrame(vis) == Frame(<<28, 8>>, 28, 32, Arm(<<28, 24>>, <<36, 28>>), <<-2, 8>>, vis)

EarPoints == {<<20, 8>>, <<28, 8>>, <<32, 8>>}

HipXs == {20, 28, 36}

RightHipYs == {28, 32, 36}

\* the elbow below the shoulder with the wrist in six places, and an arm whose
\* right angle does not lie along the axes: the shoulder at (0.7, 0.4), the
\* elbow at (0.3, 0.2), the wrist at (0.2, 0.4)
Arms ==
    {Arm(<<28, 24>>, w) :
        w \in {<<36, 24>>, <<36, 23>>, <<36, 28>>, <<36, 20>>, <<28, 32>>, <<28, 24>>}}
    \cup {Arm(<<12, 8>>, <<8, 16>>)}

AnklePoints == {<<0, 8>>, <<-2, 8>>, <<-4, 8>>, <<4, 8>>, <<8, 8>>, <<0, 0>>}

\* the poses, fully visible: every torso, every arm and every ankle
PoseFrames ==
    {Frame(e, h, r, RestingArm, <<0, 8>>, AllVisible) :
        e \in EarPoints, h \in HipXs, r \in RightHipYs}
    \cup {Frame(<<32, 8>>, 20, 32, arm, <<0, 8>>, AllVisible) : arm \in Arms}
    \cup {Frame(<<32, 8>>, 20, 32, RestingArm, a, AllVisible) : a \in AnklePoints}
    \cup {SlouchFrame(AllVisible)}

\* the landmarks some metric reads, and two that none reads
ProbedIndices ==
    {POSE_LANDMARKS.NOSE, POSE_LANDMARKS.LEFT_EAR, POSE_LANDMARKS.RIGHT_EAR,
     POSE_LANDMARKS.LEFT_SHOULDER, POSE_LANDMARKS.RIGHT_SHOULDER,
     POSE_LANDMARKS.LEFT_ELBOW, POSE_LANDMARKS.RIGHT_ELBOW,
     POSE_LANDMARKS.LEFT_WRIST, POSE_LANDMARKS.LEFT_HIP, POSE_LANDMARKS.RIGHT_HIP,
     POSE_LANDMARKS.LEFT_KNEE, POSE_LANDMARKS.RIGHT_KNEE, POSE_LANDMARKS.LEFT_ANKLE}

\* absent, below, just below, and exactly at the 0.3 threshold
WeakVisibilities == {<<>>, Vis(20), Vis(29), Vis(30)}

\* everything fully visible but one probed landmark, or but two of them that
\* are just below the threshold; and every landmark alike
VisibilityPatterns ==
    {[AllVisible EXCEPT ![i] = v] : i \in ProbedIndices, v \in WeakVisibilities}
    \cup {[AllVisible EXCEPT ![i] = Vis(29), ![j] = Vis(29)] :
             i \in ProbedIndices, j \in ProbedIndices}
    \cup {Uniform(v) : v \in WeakVisibilities \cup {Vis(0)}}

VisibilityFrames == {GoodFrame(vis) : vis \in VisibilityPatterns}

\* the landmarks analyzePosture counts for its confidence
KeyLandmarks ==
    {POSE_LANDMARKS.LEFT_SHOULDER, POSE_LANDMARKS.RIGHT_SHOULDER,
     POSE_LANDMARKS.LEFT_HIP, POSE_LANDMARKS.RIGHT_HIP, POSE_LANDMARKS.NOSE}

\* any subset of the key landmarks out of view (absent, 0 or 0.29), the rest
\* of the body fully visible
KeyVisibilityPatterns ==
    {[i \in LandmarkIndices |-> IF i \in hidden THEN v ELSE Vis(100)] :
        hidden \in SUBSET KeyLandmarks, v \in {<<>>, Vis(0), Vis(29)}}

KeyVisibilityFrames ==
    {GoodFrame(vis) : vis \in KeyVisibilityPatterns}
    \cup {SlouchFrame(vis) : vis \in KeyVisibilityPatterns}

Baseline(pelvicTilt, shoulderWidth) ==
    [pelvicTilt |-> pelvicTilt, shoulderWidth |-> shoulderWidth]

\* no baseline, and baselines of 0, 5, 40, 50 and 90 degrees
Baselines ==
    {<<>>} \cup {<<Baseline(Num(p), Dec(4, 10))>> : p \in {0, 5, 40, 50, 90}}

\* neck histories of 0, 10, 11 and 12 samples: steady, nearly steady, and
\* with one sample away from the rest
Histories ==
    {<<>>,
     [i \in 1 .. 10 |-> Num(50 + (i % 3))],
     [i \in 1 .. 11 |-> Num(50)],
     [i \in 1 .. 11 |-> IF i % 2 = 1 THEN Dec(50088, 1000) ELSE Num(50)],
     [i \in 1 .. 11 |-> IF i = 1 THEN Num(45) ELSE Num(50)],
     [i \in 1 .. 12 |-> Num(50 + (i % 3))]}

(***************************************************************************)
(* State                                                                   *)
(***************************************************************************)
VARIABLES
    landmarks,          \* PostureAnalyzer's landmarks prop (a frame)
    analysis,           \* useState: raw PostureAnalysis, <<>> when null
    smoothedAnalysis,   \* useState: smoothed PostureAnalysis, <<>> when null
    sittingMetrics,     \* useState: smoothed SittingMetrics, <<>> when null
    baseline,           \* useState: calibration baseline, <<>> when null
    neckHistory,        \* useState: rolling CVA history
    angleFilter,        \* SmoothingFilter(3) of the head-neck angle
    trunkFilter,        \* SmoothingFilter(3) of the trunk flexion
    cvaFilter,          \* OneEuroFilter of cvaDeg
    forwardHeadFilter,  \* OneEuroFilter of forwardHeadNorm
    trunkFilterEuro,    \* OneEuroFilter of trunkDeg
    pelvicFilter,       \* OneEuroFilter of pelvicTiltDegDelta
    elbowFilter,        \* OneEuroFilter of elbowDeg
    wristFilter,        \* OneEuroFilter of wristExtDeg
    kneeFilter,         \* OneEuroFilter of kneeDeg
    currentAnalysis,    \* Home's state, set through onPostureUpdate
    effectPending,      \* a dependency of analyzeCurrentPosture changed since
                        \* the effect last ran
    clock,              \* performance.now(), in milliseconds
    lastOp,             \* the handler that ran last
    rawSittingMetrics,  \* what calculateSittingMetrics returned in the last pass
    effectError,        \* what the last run of the effect threw, <<>> when nothing
    frames,             \* frames delivered so far
    passes,             \* analysis passes since the last frame was delivered
    calibrations,       \* calibrations so far
    call,               \* the pure function applied, with its arguments
    ret,                \* its result, <<>> before the call
    object,             \* the filter instance exercised on its own
    inputs,             \* the updates it was given since construction or reset
    poseLandmarker,     \* poseWorker: the landmarker, <<>> when null
    isInitialized,      \* poseWorker: the initialization flag
    initRuns,           \* poseWorker: where each run of initializePoseLandmarker is
    requests,           \* poseWorker: the messages received, in order of arrival
    posted,             \* poseWorker: the messages posted to the main thread
    isDetecting,        \* PoseDetection: useState, the loop was started
    lastVideoTime,      \* PoseDetection: lastVideoTimeRef.current
    lastEmit,           \* PoseDetection: lastEmitRef.current, in milliseconds
    loopClock,          \* PoseDetection: performance.now(), in milliseconds
    animationFrames,    \* PoseDetection: the animation frames requested and neither run nor cancelled
    animationRef,       \* PoseDetection: animationRef.current, <<>> when null
    mounted,            \* PoseDetection: the component is mounted
    onLandmarksUpdate,  \* PoseDetection: whether detectPose holds an onLandmarksUpdate prop
    emitted,            \* PoseDetection: the times of the calls of onLandmarksUpdate
    loopRun,            \* PoseDetection: what the last run of detectPose did
    loopRuns            \* PoseDetection: the runs of detectPose so far

componentVars ==
    <<landmarks, analysis, smoothedAnalysis, sittingMetrics, baseline, neckHistory,
      angleFilter, trunkFilter, cvaFilter, forwardHeadFilter, trunkFilterEuro,
      pelvicFilter, elbowFilter, wristFilter, kneeFilter, currentAnalysis,
      effectPending, clock, lastOp, rawSittingMetrics, effectError, frames, passes,
      calibrations>>

workerVars == <<poseLandmarker, isInitialized, initRuns, requests, posted>>

loopVars ==
    <<isDetecting, lastVideoTime, lastEmit, loopClock, animationFrames, animationRef,
      mounted, onLandmarksUpdate, emitted, loopRun, loopRuns>>

vars == <<componentVars, call, ret, object, inputs, workerVars, loopVars>>

(***************************************************************************)
(* Bounds                                                                  *)
(***************************************************************************)
MaxFrames == 2

MaxCalibrations == 1

\* updates given to a SmoothingFilter exercised on its own
MaxUpdates == 5

\* updates given to a OneEuroFilter exercised on its own
MaxEuroUpdates == 3

\* what performance.now() may advance by between two analysis passes (ms)
ClockSteps == {0, 33}

\* the frames the camera delivers
DeliveredFrames ==
    {GoodFrame(AllVisible),
     SlouchFrame(AllVisible),
     GoodFrame([AllVisible EXCEPT ![POSE_LANDMARKS.LEFT_EAR] = Vis(20)]),
     SlouchFrame([AllVisible EXCEPT ![POSE_LANDMARKS.RIGHT_HIP] = <<>>]),
     GoodFrame(Uniform(Vis(0)))}

(***************************************************************************)
(* PostureAnalyzer                                                         *)
(***************************************************************************)
\* one entry of smoothedSittingMetrics: the filter is updated, and the level
\* overridden, only when the raw metric is visible; update is called without
\* a timestamp, and perfNow is what performance.now() returns
SmoothMetric(raw, filter, level, perfNow) ==
    LET u == OneEuroFilter_update(filter, raw.value, <<>>, perfNow)
    IN  IF raw.visible
        THEN [filter |-> u.filter,
              metric |-> [raw EXCEPT !.value = u.value, !.level = level]]
        ELSE [filter |-> filter,
              metric |-> [raw EXCEPT !.value = Zero, !.level = "na"]]

\* metrics.name is an object, so that metrics.name.visible can be read;
\* reading a property of undefined is a TypeError
HasEntry(metrics, name) == name \in DOMAIN metrics

\* The component is mounted with its first frame; the effect has yet to run.
ComponentInit(first) ==
    /\ landmarks = first
    /\ analysis = <<>>
    /\ smoothedAnalysis = <<>>
    /\ sittingMetrics = <<>>
    /\ baseline = <<>>
    /\ neckHistory = <<>>
    /\ angleFilter = NewSmoothingFilter(3)
    /\ trunkFilter = NewSmoothingFilter(3)
    /\ cvaFilter = NewOneEuroFilter
    /\ forwardHeadFilter = NewOneEuroFilter
    /\ trunkFilterEuro = NewOneEuroFilter
    /\ pelvicFilter = NewOneEuroFilter
    /\ elbowFilter = NewOneEuroFilter
    /\ wristFilter = NewOneEuroFilter
    /\ kneeFilter = NewOneEuroFilter
    /\ currentAnalysis = <<>>
    /\ effectPending = TRUE
    /\ clock = 1000
    /\ lastOp = "mount"
    /\ rawSittingMetrics = <<>>
    /\ effectError = <<>>
    /\ frames = 1
    /\ passes = 0
    /\ calibrations = 0

\* Home passes a new landmarks object down (handleLandmarksUpdate): the
\* callback analyzeCurrentPosture is re-created and its effect is due.
NewFrame(f) ==
    /\ frames < MaxFrames
    /\ landmarks' = f
    /\ effectPending' = TRUE
    /\ lastOp' = "newFrame"
    /\ frames' = frames + 1
    /\ passes' = 0
    /\ UNCHANGED <<analysis, smoothedAnalysis, sittingMetrics, baseline, neckHistory,
                   angleFilter, trunkFilter, cvaFilter, forwardHeadFilter,
                   trunkFilterEuro, pelvicFilter, elbowFilter, wristFilter,
                   kneeFilter, currentAnalysis, clock, rawSittingMetrics,
                   effectError, calibrations, call, ret, object, inputs,
                   workerVars, loopVars>>

\* useEffect(() => analyzeCurrentPosture(), [analyzeCurrentPosture]): one run
\* of analyzeCurrentPosture, with performance.now() advanced by step.
\* Lines 33-45: setAnalysis, calculateSittingMetrics, and the cvaDeg entry of
\* smoothedSittingMetrics, which updates cvaFilter when the CVA is visible.
\* Line 48 reads rawSittingMetrics.forwardHeadNorm.visible: the metrics
\* calculateSittingMetrics returns have no forwardHeadNorm entry, so the
\* read throws a TypeError and the run ends there.  Nothing of lines 50-135
\* is reached: no other filter is updated, and setSittingMetrics,
\* setNeckHistory, setSmoothedAnalysis and onPostureUpdate are not called.
\* No dependency of the callback has changed, so the effect is not due
\* again before the next frame.
AnalyzeCurrentPosture(step) ==
    /\ effectPending
    /\ \E current \in {analyzePosture(landmarks)},
          raw \in {calculateSittingMetrics(landmarks, baseline, neckHistory)} :
       \E cva \in {SmoothMetric(raw.cvaDeg, cvaFilter,
                                classify(raw.cvaDeg.value, METRIC_THRESHOLDS.cvaDeg),
                                Num(clock + step))} :
           /\ ~HasEntry(raw, "forwardHeadNorm")
           /\ clock' = clock + step
           /\ analysis' = <<current>>
           /\ rawSittingMetrics' = <<raw>>
           /\ cvaFilter' = cva.filter
           /\ effectError' = <<"TypeError">>
    /\ effectPending' = FALSE
    /\ lastOp' = "analyzeCurrentPosture"
    /\ passes' = passes + 1
    /\ UNCHANGED <<landmarks, smoothedAnalysis, sittingMetrics, baseline, neckHistory,
                   angleFilter, trunkFilter, forwardHeadFilter, trunkFilterEuro,
                   pelvicFilter, elbowFilter, wristFilter, kneeFilter,
                   currentAnalysis, frames, calibrations,
                   call, ret, object, inputs, workerVars, loopVars>>

\* The handler of the calibration button: it returns at once while
\* sittingMetrics is null, and otherwise stores the baseline, which is a
\* dependency of analyzeCurrentPosture, so that the effect is due again.
CalibrateBaseline ==
    /\ calibrations < MaxCalibrations
    /\ IF sittingMetrics = <<>>
       THEN UNCHANGED <<baseline, effectPending>>
       ELSE /\ baseline' = <<Baseline(sittingMetrics[1].pelvicTiltDegDelta.value,
                                      IF analysis # <<>>
                                      THEN analysis[1].metrics.shoulderWidth ELSE Zero)>>
            /\ effectPending' = TRUE
    /\ lastOp' = "calibrateBaseline"
    /\ calibrations' = calibrations + 1
    /\ UNCHANGED <<landmarks, analysis, smoothedAnalysis, sittingMetrics, neckHistory,
                   angleFilter, trunkFilter, cvaFilter, forwardHeadFilter,
                   trunkFilterEuro, pelvicFilter, elbowFilter, wristFilter,
                   kneeFilter, currentAnalysis, clock, rawSittingMetrics,
                   effectError, frames, passes, call, ret, object, inputs,
                   workerVars, loopVars>>

(***************************************************************************)
(* The pose worker (src/workers/poseWorker.ts).  A promise the worker      *)
(* awaits is settled by the environment; everything the code does between  *)
(* two awaits is one step.  A landmarker is <<run>>, the run of            *)
(* initializePoseLandmarker that created it, and <<>> when null.           *)
(***************************************************************************)
MaxMessages == 3

DetectTimestamps == {1033, 1066}

\* The module's state once it is loaded: lines 6-7, and the call of line 93,
\* which runs up to its first await.
WorkerLoaded ==
    /\ poseLandmarker = <<>>
    /\ isInitialized = FALSE
    /\ initRuns = <<"vision">>
    /\ requests = <<>>
    /\ posted = <<>>

(***************************************************************************)
(* The detection loop of PoseDetection (src/components/PoseDetection.tsx). *)
(* Times of performance.now() are milliseconds, video.currentTime counts   *)
(* video frames.                                                           *)
(***************************************************************************)
MaxLoopRuns == 4

LoopStarts == {100, 500}

LoopSteps == {40, 60, 101}

VideoTimes == {1, 2}

NoRun == [path |-> "none"]

\* The refs and the state of a component just mounted, performance.now()
\* being start.  detectPose is created by the first render and never again
\* (its dependency drawPoseLandmarks never changes), so the onLandmarksUpdate
\* it holds is the prop of the first render: given (hasCallback) or not.
LoopMounted(start, hasCallback) ==
    /\ isDetecting = FALSE
    /\ lastVideoTime = -1
    /\ lastEmit = 0
    /\ loopClock = start
    /\ animationFrames = {}
    /\ animationRef = <<>>
    /\ mounted = TRUE
    /\ onLandmarksUpdate = hasCallback
    /\ emitted = <<>>
    /\ loopRun = NoRun
    /\ loopRuns = 0


NoCall == [fn |-> "none"]

NoObject == [class |-> "none"]

Init ==
    /\ \E first \in DeliveredFrames : ComponentInit(first)
    /\ call = NoCall
    /\ ret = <<>>
    /\ object = NoObject
    /\ inputs = <<>>
    /\ WorkerLoaded
    /\ LoopMounted(CHOOSE start \in LoopStarts : TRUE, TRUE)

Next ==
    \/ \E f \in DeliveredFrames : NewFrame(f)
    \/ \E step \in ClockSteps : AnalyzeCurrentPosture(step)
    \/ CalibrateBaseline

Spec == Init /\ [][Next]_vars

(***************************************************************************)
(* The pure functions, each applied once to arguments drawn from bounded   *)
(* sets                                                                    *)
(***************************************************************************)
\* everything but the function applied and its result is at rest
Idle ==
    /\ ComponentInit(GoodFrame(AllVisible))
    /\ ret = <<>>
    /\ inputs = <<>>
    /\ WorkerLoaded
    /\ LoopMounted(CHOOSE start \in LoopStarts : TRUE, TRUE)

SittingCalls ==
    [fn : {"calculateSittingMetrics"}, landmarks : PoseFrames,
     baseline : Baselines, neckHistory : {<<>>}]
    \cup [fn : {"calculateSittingMetrics"}, landmarks : VisibilityFrames,
          baseline : {<<>>, <<Baseline(Num(5), Dec(4, 10))>>}, neckHistory : {<<>>}]
    \cup [fn : {"calculateSittingMetrics"},
          landmarks : {GoodFrame(AllVisible), GoodFrame(Uniform(<<>>))},
          baseline : {<<>>, <<Baseline(Num(5), Dec(4, 10))>>}, neckHistory : Histories]

Band(lo, hi) == <<Num(lo), Num(hi)>>

\* band triples besides METRIC_THRESHOLDS: overlapping, with gaps, unordered
OtherBands ==
    {[green |-> Band(10, 20), yellow |-> Band(15, 30), red |-> Band(0, 5)],
     [green |-> Band(40, 50), yellow |-> Band(0, 10), red |-> Band(20, 30)],
     [green |-> Band(5, 5), yellow |-> Band(0, 180), red |-> Band(0, 0)]}

MetricNames ==
    {"cvaDeg", "trunkDeg", "pelvicTiltDegDelta", "elbowDeg", "kneeDeg",
     "neckVarDegPerMin"}

ClassifyBands == {METRIC_THRESHOLDS[m] : m \in MetricNames} \cup OtherBands

\* every fifth degree from -25 to 185, and 6: where the bands begin and end
ClassifyDegrees == {5 * k : k \in -5 .. 37} \cup {6}

\* those degrees, and one thousandth of a degree either side of each
ClassifyValues ==
    {Dec(1000 * d + e, 1000) : d \in ClassifyDegrees, e \in {-1, 0, 1}}

ClassifyCalls == [fn : {"classify"}, value : ClassifyValues, bands : ClassifyBands]

\* the values of ClassifyValues and their mirror images
SignedValues == ClassifyValues \cup {Neg[v] : v \in ClassifyValues}

JointCalls ==
    [fn : {"classifyElbow", "classifyKnee", "classifyPelvicTilt"}, value : SignedValues]

\* an entry of scores for a metric seen or not, at every value
ScoreCalls ==
    [fn : {"scores"}, entry : {"head", "trunk", "pelvis", "upperLimb", "lowerBody"},
     visible : BOOLEAN, value : SignedValues]

AnalyzeCalls ==
    [fn : {"analyzePosture"},
     landmarks : PoseFrames \cup VisibilityFrames \cup KeyVisibilityFrames]

\* points with every kind of visibility, for getMidpoint
MidpointPoints ==
    {[x |-> Coord(x), y |-> Coord(y), z |-> Coord(z), visibility |-> v] :
        x \in {0, 7}, y \in {0, 8}, z \in {0, -8},
        v \in {<<>>, Vis(0), Vis(30), Vis(100)}}

MidpointCalls == [fn : {"getMidpoint"}, point1 : MidpointPoints, point2 : MidpointPoints]

\* points of a small grid, three of them at a second depth, and the three
\* points of an arm whose right angle does not lie along the axes
AnglePoints ==
    {[x |-> Coord(x), y |-> Coord(y), z |-> Zero, visibility |-> Vis(100)] :
        x \in {0, 4, 8}, y \in {0, 4}}
    \cup {[x |-> Coord(x), y |-> Zero, z |-> Coord(8), visibility |-> Vis(100)] :
             x \in {0, 4, 8}}
    \cup {[x |-> Coord(p[1]), y |-> Coord(p[2]), z |-> Zero, visibility |-> Vis(100)] :
             p \in {<<28, 16>>, <<12, 8>>, <<8, 16>>}}

AngleCalls ==
    [fn : {"calculateAngle"}, point1 : AnglePoints, point2 : AnglePoints,
     point3 : AnglePoints]

CallCalculateSittingMetrics ==
    /\ call.fn = "calculateSittingMetrics"
    /\ ret = <<>>
    /\ ret' = <<calculateSittingMetrics(call.landmarks, call.baseline, call.neckHistory)>>
    /\ UNCHANGED <<componentVars, call, object, inputs, workerVars, loopVars>>

SittingInit ==
    /\ Idle
    /\ call \in SittingCalls
    /\ object = NoObject

SittingNext == CallCalculateSittingMetrics

SpecSitting == SittingInit /\ [][SittingNext]_vars

CallClassify ==
    /\ call.fn = "classify"
    /\ ret = <<>>
    /\ ret' = <<classify(call.value, call.bands)>>
    /\ UNCHANGED <<componentVars, call, object, inputs, workerVars, loopVars>>

CallClassifyElbow ==
    /\ call.fn = "classifyElbow"
    /\ ret = <<>>
    /\ ret' = <<classifyElbow(call.value)>>
    /\ UNCHANGED <<componentVars, call, object, inputs, workerVars, loopVars>>

CallClassifyKnee ==
    /\ call.fn = "classifyKnee"
    /\ ret = <<>>
    /\ ret' = <<classifyKnee(call.value)>>
    /\ UNCHANGED <<componentVars, call, object, inputs, workerVars, loopVars>>

CallClassifyPelvicTilt ==
    /\ call.fn = "classifyPelvicTilt"
    /\ ret = <<>>
    /\ ret' = <<classifyPelvicTilt(call.value)>>
    /\ UNCHANGED <<componentVars, call, object, inputs, workerVars, loopVars>>

\* one entry of the scores object of calculateSittingMetrics
CallScores ==
    /\ call.fn = "scores"
    /\ ret = <<>>
    /\ ret' = <<CASE call.entry = "head" -> headScore(call.visible, call.value)
                  [] call.entry = "trunk" -> trunkScore(call.visible, call.value)
                  [] call.entry = "pelvis" -> pelvisScore(call.visible, call.value)
                  [] call.entry = "upperLimb" -> upperLimbScore(call.visible, call.value)
                  [] call.entry = "lowerBody" -> lowerBodyScore(call.visible, call.value)>>
    /\ UNCHANGED <<componentVars, call, object, inputs, workerVars, loopVars>>

ClassifyInit ==
    /\ Idle
    /\ call \in ClassifyCalls \cup JointCalls \cup ScoreCalls
    /\ object = NoObject

ClassifyNext ==
    \/ CallClassify
    \/ CallClassifyElbow
    \/ CallClassifyKnee
    \/ CallClassifyPelvicTilt
    \/ CallScores

SpecClassify == ClassifyInit /\ [][ClassifyNext]_vars

CallAnalyzePosture ==
    /\ call.fn = "analyzePosture"
    /\ ret = <<>>
    /\ ret' = <<analyzePosture(call.landmarks)>>
    /\ UNCHANGED <<componentVars, call, object, inputs, workerVars, loopVars>>

AnalyzeInit ==
    /\ Idle
    /\ call \in AnalyzeCalls
    /\ object = NoObject

AnalyzeNext == CallAnalyzePosture

SpecAnalyze == AnalyzeInit /\ [][AnalyzeNext]_vars

CallGetMidpoint ==
    /\ call.fn = "getMidpoint"
    /\ ret = <<>>
    /\ ret' = <<getMidpoint(call.point1, call.point2)>>
    /\ UNCHANGED <<componentVars, call, object, inputs, workerVars, loopVars>>

CallCalculateAngle ==
    /\ call.fn = "calculateAngle"
    /\ ret = <<>>
    /\ ret' = <<calculateAngle(call.point1, call.point2, call.point3)>>
    /\ UNCHANGED <<componentVars, call, object, inputs, workerVars, loopVars>>

GeometryInit ==
    /\ Idle
    /\ call \in MidpointCalls \cup AngleCalls
    /\ object = NoObject

GeometryNext ==
    \/ CallGetMidpoint
    \/ CallCalculateAngle

SpecGeometry == GeometryInit /\ [][GeometryNext]_vars

(***************************************************************************)
(* The filters, each instance given a sequence of updates and resets       *)
(***************************************************************************)
WindowSizes == 1 .. 3

\* 0.1 has no exact binary form; 6 and 18 do
SmoothingInputs == {Dec(1, 10), Num(6), Num(18)}

\* 14.1 is a value that a blend of itself with itself does not return
EuroInputs == {Dec(141, 10), Dec(455, 10), Num(56)}

\* no timestamp (performance.now() is read), or one of two
Timestamps == {<<>>, <<Num(1033)>>, <<Num(1066)>>}

\* an instance, and whether reset() was ever called on it
FilterObjects ==
    {[class |-> "SmoothingFilter", filter |-> NewSmoothingFilter(k), resetDone |-> FALSE] :
        k \in WindowSizes}
    \cup {[class |-> "OneEuroFilter", filter |-> NewOneEuroFilter, resetDone |-> FALSE]}

SmoothingFilterUpdate(value) ==
    /\ object.class = "SmoothingFilter"
    /\ Len(inputs) < MaxUpdates
    /\ \E u \in {SmoothingFilter_update(object.filter, value)} :
           /\ object' = [object EXCEPT !.filter = u.filter]
           /\ ret' = <<u.value>>
    /\ inputs' = Append(inputs, value)
    /\ UNCHANGED <<componentVars, call, workerVars, loopVars>>

SmoothingFilterReset ==
    /\ object.class = "SmoothingFilter"
    /\ inputs # <<>>
    /\ object' = [object EXCEPT !.filter = SmoothingFilter_reset(@), !.resetDone = TRUE]
    /\ ret' = <<>>
    /\ inputs' = <<>>
    /\ UNCHANGED <<componentVars, call, workerVars, loopVars>>

\* update(x, timestamp); performance.now() is the component's clock
OneEuroFilterUpdate(x, timestamp) ==
    /\ object.class = "OneEuroFilter"
    /\ Len(inputs) < MaxEuroUpdates
    /\ \E u \in {OneEuroFilter_update(object.filter, x, timestamp, Num(clock))} :
           /\ object' = [object EXCEPT !.filter = u.filter]
           /\ ret' = <<[value |-> u.value, dt |-> u.dt]>>
    /\ inputs' = Append(inputs, [x |-> x, timestamp |-> timestamp])
    /\ UNCHANGED <<componentVars, call, workerVars, loopVars>>

OneEuroFilterReset ==
    /\ object.class = "OneEuroFilter"
    /\ inputs # <<>>
    /\ object' = [object EXCEPT !.filter = OneEuroFilter_reset(@), !.resetDone = TRUE]
    /\ ret' = <<>>
    /\ inputs' = <<>>
    /\ UNCHANGED <<componentVars, call, workerVars, loopVars>>

FilterInit ==
    /\ Idle
    /\ call = NoCall
    /\ object \in FilterObjects

FilterNext ==
    \/ \E value \in SmoothingInputs : SmoothingFilterUpdate(value)
    \/ SmoothingFilterReset
    \/ \E x \in EuroInputs, timestamp \in Timestamps : OneEuroFilterUpdate(x, timestamp)
    \/ OneEuroFilterReset

SpecFilter == FilterInit /\ [][FilterNext]_vars

(***************************************************************************)
(* The pose worker: initializePoseLandmarker and self.onmessage            *)
(***************************************************************************)
InitializedMessage == [type |-> "initialized", request |-> 0]

\* A message of type 'error'; request is the message it answers, 0 when it
\* reports a failed initialization.
ErrorMessage(request, error) == [type |-> "error", request |-> request, error |-> error]

DetectionResultMessage(request, timestamp) ==
    [type |-> "detectionResult", request |-> request, timestamp |-> timestamp]

\* The guard of the 'detect' case.
NotInitialized(initialized, landmarker) == ~initialized \/ landmarker = <<>>

\* The try block of the 'detect' case once createImageBitmap has settled:
\* bitmapOk is whether it resolved, detectOk whether detectForVideo returned.
DetectOutcome(request, timestamp, landmarker, bitmapOk, detectOk) ==
    IF bitmapOk /\ landmarker # <<>> /\ detectOk
    THEN DetectionResultMessage(request, timestamp)
    ELSE ErrorMessage(request, "Pose detection failed")

\* The flag as the mutant sets it: also when createFromOptions rejected.
InitializedAfterCreate_Always(was, ok) == TRUE

\* isInitialized after createFromOptions has settled: line 28 runs only when
\* the await of line 16 resolved.
InitializedAfterCreate(was, ok) == was \/ ok

\* The 'init' message: a further run of initializePoseLandmarker, which runs
\* up to its first await.
OnMessageInit ==
    /\ Len(requests) < MaxMessages
    /\ requests' = Append(requests, [type |-> "init", pc |-> "done"])
    /\ initRuns' = Append(initRuns, "vision")
    /\ UNCHANGED <<poseLandmarker, isInitialized, posted>>
    /\ UNCHANGED <<componentVars, call, ret, object, inputs, loopVars>>

\* A 'detect' message: answered at once when the guard fails, otherwise the
\* handler waits for createImageBitmap.
OnMessageDetect(timestamp) ==
    /\ Len(requests) < MaxMessages
    /\ \E request \in {Len(requests) + 1} :
           IF NotInitialized(isInitialized, poseLandmarker)
           THEN /\ requests' = Append(requests,
                        [type |-> "detect", timestamp |-> timestamp, pc |-> "done",
                         initialized |-> isInitialized, landmarker |-> poseLandmarker,
                         bitmapOk |-> FALSE, detectOk |-> FALSE])
                /\ posted' = Append(posted,
                                    ErrorMessage(request, "Pose landmarker not initialized"))
           ELSE /\ requests' = Append(requests,
                        [type |-> "detect", timestamp |-> timestamp, pc |-> "bitmap",
                         initialized |-> isInitialized, landmarker |-> poseLandmarker,
                         bitmapOk |-> FALSE, detectOk |-> FALSE])
                /\ UNCHANGED posted
    /\ UNCHANGED <<poseLandmarker, isInitialized, initRuns>>
    /\ UNCHANGED <<componentVars, call, ret, object, inputs, loopVars>>

\* A message of any other type: the default case only warns.
OnMessageOther ==
    /\ Len(requests) < MaxMessages
    /\ requests' = Append(requests, [type |-> "other", pc |-> "done"])
    /\ UNCHANGED <<poseLandmarker, isInitialized, initRuns, posted>>
    /\ UNCHANGED <<componentVars, call, ret, object, inputs, loopVars>>

\* createImageBitmap settles for the detect message numbered request, and the
\* handler runs to its end.
BitmapSettles(request, bitmapOk, detectOk) ==
    /\ request \in 1 .. Len(requests)
    /\ requests[request].pc = "bitmap"
    /\ requests' = [requests EXCEPT ![request].pc = "done",
                                    ![request].bitmapOk = bitmapOk,
                                    ![request].detectOk = bitmapOk /\ detectOk]
    /\ posted' = Append(posted,
                        DetectOutcome(request, requests[request].timestamp,
                                      poseLandmarker, bitmapOk, detectOk))
    /\ UNCHANGED <<poseLandmarker, isInitialized, initRuns>>
    /\ UNCHANGED <<componentVars, call, ret, object, inputs, loopVars>>

\* FilesetResolver.forVisionTasks settles in a run of initializePoseLandmarker.
VisionSettles(run, ok) ==
    /\ run \in 1 .. Len(initRuns)
    /\ initRuns[run] = "vision"
    /\ IF ok
       THEN /\ initRuns' = [initRuns EXCEPT ![run] = "create"]
            /\ UNCHANGED posted
       ELSE /\ initRuns' = [initRuns EXCEPT ![run] = "failed"]
            /\ posted' = Append(posted, ErrorMessage(0, "Failed to initialize pose detection"))
    /\ UNCHANGED <<poseLandmarker, isInitialized, requests>>
    /\ UNCHANGED <<componentVars, call, ret, object, inputs, loopVars>>

\* PoseLandmarker.createFromOptions settles in a run of
\* initializePoseLandmarker.
CreateSettles(run, ok) ==
    /\ run \in 1 .. Len(initRuns)
    /\ initRuns[run] = "create"
    /\ isInitialized' = InitializedAfterCreate(isInitialized, ok)
    /\ IF ok
       THEN /\ initRuns' = [initRuns EXCEPT ![run] = "done"]
            /\ poseLandmarker' = <<run>>
            /\ posted' = Append(posted, InitializedMessage)
       ELSE /\ initRuns' = [initRuns EXCEPT ![run] = "failed"]
            /\ posted' = Append(posted, ErrorMessage(0, "Failed to initialize pose detection"))
            /\ UNCHANGED poseLandmarker
    /\ UNCHANGED requests
    /\ UNCHANGED <<componentVars, call, ret, object, inputs, loopVars>>

WorkerInit ==
    /\ ComponentInit(GoodFrame(AllVisible))
    /\ call = NoCall
    /\ ret = <<>>
    /\ object = NoObject
    /\ inputs = <<>>
    /\ WorkerLoaded
    /\ LoopMounted(CHOOSE start \in LoopStarts : TRUE, TRUE)

WorkerNext ==
    \/ OnMessageInit
    \/ \E timestamp \in DetectTimestamps : OnMessageDetect(timestamp)
    \/ OnMessageOther
    \/ \E request \in 1 .. MaxMessages, bitmapOk \in BOOLEAN, detectOk \in BOOLEAN :
           BitmapSettles(request, bitmapOk, detectOk)
    \/ \E run \in 1 .. MaxMessages + 1, ok \in BOOLEAN : VisionSettles(run, ok)
    \/ \E run \in 1 .. MaxMessages + 1, ok \in BOOLEAN : CreateSettles(run, ok)

SpecWorker == WorkerInit /\ [][WorkerNext]_vars

(***************************************************************************)
(* The detection loop of PoseDetection: detectPose and startDetection      *)
(***************************************************************************)
DetectionResults == {"landmarks", "empty", "throws"}

\* What a frame callback finds: whether videoRef and poseLandmarkerRef are
\* set, video.currentTime, whether the video has dimensions, performance.now(),
\* what detectForVideo does, and whether the onLandmarksUpdate prop is given.
LoopInput(present, currentTime, hasDimensions, now, detection, hasCallback) ==
    [present |-> present, currentTime |-> currentTime, hasDimensions |-> hasDimensions,
     now |-> now, detection |-> detection, hasCallback |-> hasCallback]

\* The throttle as the mutant has it: an emission 100 ms after the last one.
ShouldEmit_AtLeast(hasCallback, now, last) == hasCallback /\ now - last >= 100

\* onLandmarksUpdate && now - lastEmitRef.current > 100
ShouldEmit(hasCallback, now, last) == hasCallback /\ now - last > 100

\* A run that returned early after requesting the next animation frame.
EarlyReturn(refs, in, path) ==
    [lastVideoTime |-> refs.lastVideoTime, lastEmit |-> refs.lastEmit,
     run |-> [path |-> path, now |-> in.now, since |-> in.now - refs.lastEmit,
              landmarks |-> FALSE, emit |-> FALSE, draw |-> FALSE, requested |-> TRUE]]

\* One run of detectPose on the refs [lastVideoTime, lastEmit]: the refs it
\* leaves and what it did (the path taken, whether it called onLandmarksUpdate
\* and drawPoseLandmarks, and whether it requested the next animation frame).
detectPose(refs, in) ==
    IF ~in.present THEN EarlyReturn(refs, in, "missing")
    ELSE IF in.currentTime = refs.lastVideoTime THEN EarlyReturn(refs, in, "unchanged")
    ELSE IF ~in.hasDimensions THEN EarlyReturn(refs, in, "dimensions")
    ELSE IF in.detection = "throws"
    THEN [lastVideoTime |-> in.currentTime, lastEmit |-> refs.lastEmit,
          run |-> [path |-> "error", now |-> in.now, since |-> in.now - refs.lastEmit,
                   landmarks |-> FALSE, emit |-> FALSE, draw |-> FALSE,
                   requested |-> TRUE]]
    ELSE IF in.detection = "empty"
    THEN [lastVideoTime |-> in.currentTime, lastEmit |-> refs.lastEmit,
          run |-> [path |-> "empty", now |-> in.now, since |-> in.now - refs.lastEmit,
                   landmarks |-> FALSE, emit |-> FALSE, draw |-> FALSE,
                   requested |-> TRUE]]
    ELSE \* a pose was detected
         LET emit == ShouldEmit(in.hasCallback, in.now, refs.lastEmit)
         IN  [lastVideoTime |-> in.currentTime,
              lastEmit |-> IF emit THEN in.now ELSE refs.lastEmit,
              run |-> [path |-> "detected", now |-> in.now,
                       since |-> in.now - refs.lastEmit,
                       landmarks |-> TRUE, emit |-> emit, draw |-> TRUE,
                       requested |-> TRUE]]

\* The effect of a run of detectPose on the component.  pending are the
\* animation frames requested besides the one this run requests; the frame
\* it requests is numbered by the run, and animationRef.current takes it.
RunDetectPose(in, pending) ==
    \E r \in {detectPose([lastVideoTime |-> lastVideoTime, lastEmit |-> lastEmit], in)} :
        /\ lastVideoTime' = r.lastVideoTime
        /\ lastEmit' = r.lastEmit
        /\ loopRun' = r.run
        /\ emitted' = IF r.run.emit THEN Append(emitted, in.now) ELSE emitted
        /\ animationFrames' =
               IF r.run.requested THEN pending \cup {loopRuns + 1} ELSE pending
        /\ animationRef' = IF r.run.requested THEN <<loopRuns + 1>> ELSE animationRef
        /\ loopRuns' = loopRuns + 1

\* startDetection, behind a button that is disabled while isDetecting.  With
\* the landmarker, the video element and a video width above 0 it sets
\* isDetecting and calls detectPose, which finds the same refs and tests the
\* video's height itself; otherwise it logs and changes nothing.
StartDetection(present, hasWidth, hasHeight, currentTime, detection) ==
    /\ mounted
    /\ ~isDetecting
    /\ loopRuns < MaxLoopRuns
    /\ IF present /\ hasWidth
       THEN /\ isDetecting' = TRUE
            /\ RunDetectPose(LoopInput(TRUE, currentTime, hasHeight, loopClock, detection,
                                       onLandmarksUpdate),
                             animationFrames)
       ELSE UNCHANGED <<isDetecting, lastVideoTime, lastEmit, loopRun, emitted,
                        animationFrames, animationRef, loopRuns>>
    /\ UNCHANGED <<loopClock, mounted, onLandmarksUpdate>>
    /\ UNCHANGED <<componentVars, call, ret, object, inputs, workerVars>>

\* stopDetection: the frame animationRef.current names is cancelled, if any,
\* and isDetecting is cleared.
StopDetection ==
    /\ animationFrames' = IF animationRef # <<>> THEN animationFrames \ {animationRef[1]}
                          ELSE animationFrames
    /\ animationRef' = <<>>
    /\ isDetecting' = FALSE

\* The cleanup of the unmount effect (lines 378-385): React runs it when the
\* component is unmounted, and it calls stopDetection.  Its dependency,
\* stopDetection, never changes, so it runs at no other time; the button
\* that would call stopDetection is disabled while isDetecting.
Cleanup ==
    /\ mounted
    /\ StopDetection
    /\ mounted' = FALSE
    /\ UNCHANGED <<lastVideoTime, lastEmit, loopClock, onLandmarksUpdate, emitted,
                   loopRun, loopRuns>>
    /\ UNCHANGED <<componentVars, call, ret, object, inputs, workerVars>>

\* The browser runs a requested animation frame, step milliseconds after the
\* last run.
AnimationFrame(frame, present, currentTime, hasDimensions, step, detection) ==
    /\ frame \in animationFrames
    /\ loopRuns < MaxLoopRuns
    /\ loopClock' = loopClock + step
    /\ RunDetectPose(LoopInput(present, currentTime, hasDimensions, loopClock + step,
                               detection, onLandmarksUpdate),
                     animationFrames \ {frame})
    /\ UNCHANGED <<isDetecting, mounted, onLandmarksUpdate>>
    /\ UNCHANGED <<componentVars, call, ret, object, inputs, workerVars>>

LoopInit ==
    /\ ComponentInit(GoodFrame(AllVisible))
    /\ call = NoCall
    /\ ret = <<>>
    /\ object = NoObject
    /\ inputs = <<>>
    /\ WorkerLoaded
    /\ \E start \in LoopStarts, hasCallback \in BOOLEAN : LoopMounted(start, hasCallback)

LoopNext ==
    \/ \E present \in BOOLEAN, hasWidth \in BOOLEAN, hasHeight \in BOOLEAN,
          currentTime \in VideoTimes, detection \in DetectionResults :
           StartDetection(present, hasWidth, hasHeight, currentTime, detection)
    \/ Cleanup
    \/ \E frame \in 1 .. MaxLoopRuns, present \in BOOLEAN, currentTime \in VideoTimes,
          hasDimensions \in BOOLEAN, step \in LoopSteps, detection \in DetectionResults :
           AnimationFrame(frame, present, currentTime, hasDimensions, step, detection)

SpecLoop == LoopInit /\ [][LoopNext]_vars


(***************************************************************************)
(* Properties                                                              *)
(***************************************************************************)
FreshOneEuro(f) == ~f.x.hasLast /\ ~f.dx.hasLast /\ IsZero(f.lastTime)

FreshSmoothing(f) == f.buffer = <<>>

SittingCallDone == call.fn = "calculateSittingMetrics" /\ ret # <<>>

ClassifyCallDone == call.fn = "classify" /\ ret # <<>>

InBand(value, band) == Ge(value, band[1]) /\ Le(value, band[2])

\* the landmark's visibility is at least 0.3, an absent one counting as 0
Visible30(landmarkSet, i) ==
    LET v == landmarkSet[i].visibility
    IN  v # <<>> /\ Cmp[v[1], Dec(3, 10)] >= 0

\* the landmarks each metric requires
RequiredLandmarks ==
    [cvaDeg |-> {POSE_LANDMARKS.LEFT_EAR, POSE_LANDMARKS.RIGHT_EAR,
                 POSE_LANDMARKS.LEFT_SHOULDER, POSE_LANDMARKS.RIGHT_SHOULDER},
     trunkDeg |-> {POSE_LANDMARKS.LEFT_SHOULDER, POSE_LANDMARKS.RIGHT_SHOULDER,
                   POSE_LANDMARKS.LEFT_HIP, POSE_LANDMARKS.RIGHT_HIP},
     pelvicTiltDegDelta |-> {POSE_LANDMARKS.LEFT_SHOULDER, POSE_LANDMARKS.RIGHT_SHOULDER,
                             POSE_LANDMARKS.LEFT_HIP, POSE_LANDMARKS.RIGHT_HIP},
     pelvicTiltDeg |-> {POSE_LANDMARKS.LEFT_SHOULDER, POSE_LANDMARKS.RIGHT_SHOULDER,
                        POSE_LANDMARKS.LEFT_HIP, POSE_LANDMARKS.RIGHT_HIP},
     elbowDeg |-> {POSE_LANDMARKS.LEFT_SHOULDER, POSE_LANDMARKS.LEFT_ELBOW,
                   POSE_LANDMARKS.LEFT_WRIST},
     kneeDeg |-> {POSE_LANDMARKS.LEFT_HIP, POSE_LANDMARKS.LEFT_KNEE,
                  POSE_LANDMARKS.LEFT_ANKLE}]

\* the five sub-metrics of the ergonomic score
SubMetrics == {"cvaDeg", "trunkDeg", "pelvicTiltDegDelta", "elbowDeg", "kneeDeg"}

\* the seven One-Euro filters of the component
EuroFilters ==
    <<cvaFilter, forwardHeadFilter, trunkFilterEuro, pelvicFilter, elbowFilter,
      wristFilter, kneeFilter>>

\* C1: a frame delivered through the landmarks prop is analysed exactly
\* once: until the next frame arrives there is at most one analysis pass,
\* the neck history has grown by at most one sample per frame, and once the
\* effect has run on the frame its analysis is there: nothing was thrown,
\* and the smoothed metrics and the smoothed analysis are stored and handed
\* to onPostureUpdate.
C1_OnePassPerFrame ==
    /\ passes <= 1
    /\ Len(neckHistory) <= frames
    /\ passes = 1 =>
           /\ effectError = <<>>
           /\ sittingMetrics # <<>>
           /\ smoothedAnalysis # <<>>
           /\ currentAnalysis = smoothedAnalysis

\* C2: when calibrateBaseline has run, every filter is back to "no prior
\* sample" and the neck history is empty.
C2_CalibrationResets ==
    lastOp = "calibrateBaseline" =>
        /\ FreshSmoothing(angleFilter) /\ FreshSmoothing(trunkFilter)
        /\ \A i \in 1 .. Len(EuroFilters) : FreshOneEuro(EuroFilters[i])
        /\ neckHistory = <<>>

\* C3: when calibrateBaseline has run on an analysed frame whose absolute
\* pelvic tilt is P, a baseline is stored and its pelvicTilt is P.
C3_BaselineIsCurrentTilt ==
    (lastOp = "calibrateBaseline" /\ rawSittingMetrics # <<>>) =>
        /\ baseline # <<>>
        /\ baseline[1].pelvicTilt = rawSittingMetrics[1].pelvicTiltDeg.value

\* C4: with a baseline of pelvic tilt b and a visible pelvis of current tilt
\* c, pelvicTiltDegDelta has value c - b and level classifyPelvicTilt(c - b).
C4_PelvicDeltaValueAndLevel ==
    (/\ SittingCallDone
     /\ call.baseline # <<>>
     /\ \A i \in RequiredLandmarks.pelvicTiltDegDelta : Visible30(call.landmarks, i))
    => LET c == calculateAngle([x |-> Zero, y |-> Zero, z |-> Zero],
                               call.landmarks[POSE_LANDMARKS.LEFT_HIP],
                               call.landmarks[POSE_LANDMARKS.RIGHT_HIP])
           b == call.baseline[1].pelvicTilt
       IN  /\ ret[1].pelvicTiltDegDelta.value = Sub(c, b)
           /\ ret[1].pelvicTiltDegDelta.level = classifyPelvicTilt(Sub(c, b))

\* C5: a metric returned with visible = false has value 0, whatever the
\* metric and whatever the baseline.
C5_InvisibleValueZero ==
    SittingCallDone =>
        \A m \in DOMAIN ret[1] : ~ret[1][m].visible => IsZero(ret[1][m].value)

\* C6: a metric is visible iff every landmark of its own required set has
\* visibility >= 0.3, an absent visibility counting as 0; the other
\* landmarks have no influence.
C6_VisibleIffRequiredVisible ==
    SittingCallDone =>
        \A m \in DOMAIN RequiredLandmarks :
            ret[1][m].visible
                <=> \A i \in RequiredLandmarks[m] : Visible30(call.landmarks, i)

\* left ear at 0.2, all else at 1.0: CVA is not visible, the rest is
C6_Witness ==
    /\ SittingCallDone
    /\ call.landmarks[POSE_LANDMARKS.LEFT_EAR].visibility = <<Dec(2, 10)>>
    /\ \A i \in LandmarkIndices \ {POSE_LANDMARKS.LEFT_EAR} :
           call.landmarks[i].visibility = <<Num(1)>>
    /\ ~ret[1].cvaDeg.visible
    /\ \A m \in DOMAIN RequiredLandmarks \ {"cvaDeg"} : ret[1][m].visible

\* C7: in every returned metric, level is "na" iff visible is false, and
\* sigma is 0.1 when visible and 1.0 when not.
C7_LevelNaAndSigma ==
    SittingCallDone =>
        \A m \in DOMAIN ret[1] :
            /\ ret[1][m].level = "na" <=> ~ret[1][m].visible
            /\ ret[1][m].sigma = IF ret[1][m].visible THEN Dec(1, 10) ELSE Num(1)

C7_Witness ==
    /\ SittingCallDone
    /\ ~ret[1].kneeDeg.visible /\ ret[1].kneeDeg.sigma = Num(1)
    /\ ret[1].elbowDeg.visible /\ ret[1].elbowDeg.sigma = Dec(1, 10)

\* every sub-metric visible and in its best band
AllBest(r) ==
    /\ \A m \in SubMetrics : r[m].visible
    /\ Ge(r.cvaDeg.value, Num(50))
    /\ Le(r.trunkDeg.value, Num(20))
    /\ Le(MathAbs(r.pelvicTiltDegDelta.value), Num(10))
    /\ Ge(r.elbowDeg.value, Num(90)) /\ Le(r.elbowDeg.value, Num(110))
    /\ Ge(r.kneeDeg.value, Num(80)) /\ Le(r.kneeDeg.value, Num(110))

\* every value the entries of scores can take together: each entry is 0
\* (not visible), 0.4, 0.7 or 1.0
ScoreRecords ==
    [head : {Zero, Dec(4, 10), Dec(7, 10), Num(1)},
     trunk : {Zero, Dec(4, 10), Dec(7, 10), Num(1)},
     pelvis : {Zero, Dec(4, 10), Dec(7, 10), Num(1)},
     upperLimb : {Zero, Dec(4, 10), Dec(7, 10), Num(1)},
     lowerBody : {Zero, Dec(4, 10), Dec(7, 10), Num(1)}]

\* the weighted sum of every combination of sub-scores, times 100, lies in
\* [0, 100]
EveryScoreInRange ==
    \A scores \in ScoreRecords :
        Ge(ErgoScore(scores), Zero) /\ Le(ErgoScore(scores), Num(100))

\* C8: ergoScore is within [0,100], visible, with confidence 0.8; it is 0
\* when no sub-metric is visible and 100 when all five are visible and in
\* their best band.  The range holds for every combination of sub-scores,
\* not only for those the frames of the model produce.
C8_ErgoScoreRange ==
    /\ EveryScoreInRange
    /\ SittingCallDone =>
           /\ Ge(ret[1].ergoScore.value, Zero) /\ Le(ret[1].ergoScore.value, Num(100))
           /\ ret[1].ergoScore.visible
           /\ ret[1].ergoScore.confidence = Dec(8, 10)
           /\ (\A m \in SubMetrics : ~ret[1][m].visible) => IsZero(ret[1].ergoScore.value)
           /\ AllBest(ret[1]) => ret[1].ergoScore.value = Num(100)

C8_Witness ==
    /\ SittingCallDone
    /\ AllBest(ret[1])
    /\ call.baseline # <<>>
    /\ ret[1].ergoScore.value = Num(100)

\* C9: classify returns green inside the closed green interval, else yellow
\* inside the closed yellow interval, else red, whatever the red interval
\* is; nothing else is returned.
C9_ClassifyTotal ==
    ClassifyCallDone =>
        /\ ret[1] \in {"green", "yellow", "red"}
        /\ ret[1] = "green" <=> InBand(call.value, call.bands.green)
        /\ ret[1] = "yellow" <=> /\ ~InBand(call.value, call.bands.green)
                                 /\ InBand(call.value, call.bands.yellow)

\* a value outside the green, yellow and red intervals is red
C9_Witness ==
    /\ ClassifyCallDone
    /\ ~InBand(call.value, call.bands.green)
    /\ ~InBand(call.value, call.bands.yellow)
    /\ ~InBand(call.value, call.bands.red)
    /\ ret[1] = "red"

\* the band table of the single-range metrics, in degrees
TableLevel(metric, v) ==
    CASE metric = "cvaDeg" ->
            IF Ge(v, Num(50)) /\ Le(v, Num(180)) THEN "green"
            ELSE IF Ge(v, Num(40)) /\ Lt(v, Num(50)) THEN "yellow"
            ELSE IF Lt(v, Num(40)) THEN "red" ELSE "any"
      [] metric = "trunkDeg" ->
            IF Ge(v, Zero) /\ Le(v, Num(20)) THEN "green"
            ELSE IF Gt(v, Num(20)) /\ Le(v, Num(30)) THEN "yellow"
            ELSE IF Gt(v, Num(30)) THEN "red" ELSE "any"
      [] metric = "neckVarDegPerMin" ->
            IF Ge(v, Zero) /\ Le(v, Num(6)) THEN "green"
            ELSE IF Gt(v, Num(6)) /\ Le(v, Num(10)) THEN "yellow"
            ELSE IF Gt(v, Num(10)) THEN "red" ELSE "any"

\* C10: with METRIC_THRESHOLDS, classify gives CVA green on [50,180], yellow
\* on [40,50), red below 40; trunk green on [0,20], yellow on (20,30], red
\* above 30; neck variability green on [0,6], yellow on (6,10], red above 10.
C10_BandTable ==
    ClassifyCallDone =>
        \A m \in {"cvaDeg", "trunkDeg", "neckVarDegPerMin"} :
            call.bands = METRIC_THRESHOLDS[m] =>
                \/ TableLevel(m, call.value) = "any"
                \/ ret[1] = TableLevel(m, call.value)

\* CVA 50 is green
C10_Witness ==
    /\ ClassifyCallDone
    /\ call.bands = METRIC_THRESHOLDS.cvaDeg
    /\ call.value = Num(50)
    /\ ret[1] = "green"

JointCallDone(fn) == call.fn = fn /\ ret # <<>>

\* C11: classifyElbow is green on [90,110], yellow on [75,90) and (110,125],
\* red elsewhere; classifyKnee is green on [80,110], yellow on [70,80) and
\* (110,120], red elsewhere.
C11_JointBands ==
    /\ JointCallDone("classifyElbow") =>
           LET v == call.value
           IN  /\ (ret[1] = "green") <=> (Le(Num(90), v) /\ Le(v, Num(110)))
               /\ (ret[1] = "yellow") <=>
                      \/ (Le(Num(75), v) /\ Lt(v, Num(90)))
                      \/ (Lt(Num(110), v) /\ Le(v, Num(125)))
               /\ (ret[1] = "red") <=> (Lt(v, Num(75)) \/ Gt(v, Num(125)))
    /\ JointCallDone("classifyKnee") =>
           LET v == call.value
           IN  /\ (ret[1] = "green") <=> (Le(Num(80), v) /\ Le(v, Num(110)))
               /\ (ret[1] = "yellow") <=>
                      \/ (Le(Num(70), v) /\ Lt(v, Num(80)))
                      \/ (Lt(Num(110), v) /\ Le(v, Num(120)))
               /\ (ret[1] = "red") <=> (Lt(v, Num(70)) \/ Gt(v, Num(120)))

\* the elbow at exactly 110 degrees is green
C11_Witness ==
    JointCallDone("classifyElbow") /\ call.value = Num(110) /\ ret = <<"green">>

\* C12: classifyPelvicTilt is green iff |v| <= 10, yellow iff 10 < |v| <= 20,
\* red iff |v| > 20, and gives v and -v the same level.
C12_PelvicTiltSymmetric ==
    JointCallDone("classifyPelvicTilt") =>
        LET v == call.value
            a == IF Lt(v, Zero) THEN Neg[v] ELSE v
        IN  /\ (ret[1] = "green") <=> Le(a, Num(10))
            /\ (ret[1] = "yellow") <=> (Lt(Num(10), a) /\ Le(a, Num(20)))
            /\ (ret[1] = "red") <=> Gt(a, Num(20))
            /\ ret[1] = classifyPelvicTilt(Neg[v])

\* a backward tilt of 15 degrees is yellow
C12_Witness ==
    JointCallDone("classifyPelvicTilt") /\ call.value = Num(-15) /\ ret = <<"yellow">>

\* C13: a visible neckVarDegPerMin has the level of the neck-variability
\* bands: green for a value in [0,6], yellow for (6,10], red above 10.
C13_NeckVarLevel ==
    (SittingCallDone /\ ret[1].neckVarDegPerMin.visible) =>
        LET v == ret[1].neckVarDegPerMin.value
        IN  ret[1].neckVarDegPerMin.level =
                IF Le(Zero, v) /\ Le(v, Num(6)) THEN "green"
                ELSE IF Le(v, Num(10)) THEN "yellow"
                ELSE "red"

\* C14: neckVarDegPerMin is visible iff the history passed in has more than
\* 10 entries, whatever the landmarks' visibility, and its value is 0 when
\* it is not visible.
C14_NeckVarVisibleIffLong ==
    SittingCallDone =>
        /\ ret[1].neckVarDegPerMin.visible <=> (Len(call.neckHistory) > 10)
        /\ ~ret[1].neckVarDegPerMin.visible => IsZero(ret[1].neckVarDegPerMin.value)

\* eleven samples and not one landmark visible: the metric is visible
C14_Witness ==
    /\ SittingCallDone
    /\ Len(call.neckHistory) = 11
    /\ \A i \in LandmarkIndices : ~Visible30(call.landmarks, i)
    /\ ret[1].neckVarDegPerMin.visible

\* the landmarks cvaDeg requires are visible in the current frame
CvaVisible ==
    \A i \in {POSE_LANDMARKS.LEFT_EAR, POSE_LANDMARKS.RIGHT_EAR,
               POSE_LANDMARKS.LEFT_SHOULDER, POSE_LANDMARKS.RIGHT_SHOULDER} :
        Visible30(landmarks, i)

\* new is the last 1800 samples of old followed by value
AppendedAndCapped(old, value, new) ==
    LET all == Append(old, value)
        drop == IF Len(all) > 1800 THEN Len(all) - 1800 ELSE 0
    IN  /\ Len(new) = Len(all) - drop
        /\ \A i \in 1 .. Len(new) : new[i] = all[i + drop]

\* C15: the neck history never holds more than 1800 samples; an analysis
\* pass appends the frame's raw CVA when cvaDeg is visible in the frame and
\* leaves the history alone when it is not; past the cap the oldest samples
\* are dropped; nothing else changes the history.
C15_HistoryCapped ==
    [][/\ Len(neckHistory') <= 1800
       /\ IF passes' = passes + 1 /\ CvaVisible
          THEN AppendedAndCapped(neckHistory, rawSittingMetrics'[1].cvaDeg.value,
                                 neckHistory')
          ELSE neckHistory' = neckHistory]_vars

AnalyzeCallDone == call.fn = "analyzePosture" /\ ret # <<>>

\* how many of the five key landmarks of a frame are visible at 0.3
KeyVisibleCount(frame) == Cardinality({i \in KeyLandmarks : Visible30(frame, i)})

\* both shoulders and both hips of a frame are visible at 0.3
SpineInView(frame) ==
    \A i \in KeyLandmarks \ {POSE_LANDMARKS.NOSE} : Visible30(frame, i)

\* C16: with fewer than 3 of the 5 key landmarks visible analyzePosture
\* returns borderline / low / "Insufficient pose visibility for analysis",
\* spineVisible false, every metric 0 and the confidence visible / 5.
C16_InsufficientVisibility ==
    (AnalyzeCallDone /\ KeyVisibleCount(call.landmarks) < 3) =>
        ret[1] = [status |-> "borderline",
                  metrics |-> [headNeckAngle |-> Zero, trunkFlexion |-> Zero,
                               shoulderWidth |-> Zero,
                               confidence |-> Dec(KeyVisibleCount(call.landmarks), 5),
                               spineVisible |-> FALSE],
                  severity |-> "low",
                  message |-> [text |-> "Insufficient pose visibility for analysis",
                               arg |-> <<>>]]

\* only the nose is visible, the other key landmarks have visibility 0:
\* confidence 0.2
C16_Witness ==
    /\ AnalyzeCallDone
    /\ \A i \in KeyLandmarks :
           call.landmarks[i].visibility =
               IF i = POSE_LANDMARKS.NOSE THEN <<Num(1)>> ELSE <<Zero>>
    /\ ret[1].metrics.confidence = Dec(2, 10)
    /\ ret[1].status = "borderline"

\* C17: with 3 or more key landmarks visible, a spine out of view gives
\* borderline / low / "Spine not in view" and trunk flexion 0; otherwise a
\* trunk flexion of at most 15 gives good / low, above 25 slouching (high
\* above 35, else medium), and in between borderline / low / "Posture needs
\* improvement".
C17_ClassificationOrder ==
    (AnalyzeCallDone /\ KeyVisibleCount(call.landmarks) >= 3) =>
        LET r == ret[1]
            flexion == r.metrics.trunkFlexion
        IN  /\ r.metrics.spineVisible <=> SpineInView(call.landmarks)
            /\ IF ~SpineInView(call.landmarks)
               THEN /\ IsZero(flexion)
                    /\ r.status = "borderline" /\ r.severity = "low"
                    /\ r.message.text = "Spine not in view"
               ELSE IF Le(flexion, Num(15))
               THEN r.status = "good" /\ r.severity = "low"
               ELSE IF Gt(flexion, Num(25))
               THEN /\ r.status = "slouching"
                    /\ r.severity = IF Gt(flexion, Num(35)) THEN "high" ELSE "medium"
               ELSE /\ r.status = "borderline" /\ r.severity = "low"
                    /\ r.message.text = "Posture needs improvement"

\* three key landmarks in view but not the whole spine
C17_Witness ==
    /\ AnalyzeCallDone
    /\ KeyVisibleCount(call.landmarks) = 3
    /\ ~SpineInView(call.landmarks)
    /\ ret[1].message.text = "Spine not in view"

\* C18: a SmoothingFilter with window maxSize >= 1 returns, after n updates
\* since construction or reset, the arithmetic mean of the last
\* min(n, maxSize) inputs, and its buffer holds exactly those.
C18_WindowMean ==
    (object.class = "SmoothingFilter" /\ inputs # <<>>) =>
        LET n == Len(inputs)
            k == IF n < object.filter.maxSize THEN n ELSE object.filter.maxSize
            window == SubSeq(inputs, n - k + 1, n)
        IN  /\ ret # <<>>
            /\ ret[1] = Div[SumSeq(window), Num(k)]
            /\ Len(object.filter.buffer) <= object.filter.maxSize
            /\ object.filter.buffer = window

\* more updates than the window is long, and an input that has left the
\* window differs from the mean returned
C18_Witness ==
    /\ object.class = "SmoothingFilter"
    /\ Len(inputs) > object.filter.maxSize
    /\ ret # <<>>
    /\ inputs[1] # ret[1]

\* the time of an update given to the OneEuroFilter exercised on its own
TimeOf(input) == IF input.timestamp = <<>> THEN Num(clock) ELSE input.timestamp[1]

\* this step is an update of that filter
EuroUpdateStep == object.class = "OneEuroFilter" /\ Len(inputs') = Len(inputs) + 1

\* ... not the first since construction or reset, with a time not later
\* than the previous update's
EuroStaleStep ==
    /\ EuroUpdateStep
    /\ inputs # <<>>
    /\ Le(TimeOf(inputs'[Len(inputs')]), TimeOf(inputs[Len(inputs)]))

\* C19: an update whose time is not later than the previous update's
\* returns the previous smoothed value and leaves the filter as it was:
\* value low-pass, derivative low-pass and last timestamp.
C19_StaleUpdateChangesNothing ==
    [][EuroStaleStep =>
          /\ ret'[1].value = ret[1].value
          /\ object'.filter.x = object.filter.x
          /\ object'.filter.dx = object.filter.dx
          /\ object'.filter.lastTime = object.filter.lastTime]_vars

\* C20, as stated: dt is the nominal 1/30 s on the first sample and whenever
\* the time is not greater than the previous one, and the dt of an update is
\* never zero or negative.
C20_NominalWhenStale ==
    [][EuroUpdateStep =>
          /\ (inputs = <<>> \/ EuroStaleStep) => ret'[1].dt = Div[Num(1), Num(30)]
          /\ Gt(ret'[1].dt, Zero)]_vars

\* C20, amended: dt is the nominal 1/30 s on the first sample after
\* construction or reset, and the elapsed time when the time is greater than
\* the previous one; when it is not, dt is zero or negative and nothing is
\* divided by it: the previous value is returned and both low-pass filters
\* stay as they were.
C20_NominalOnFirstSampleOnly ==
    [][EuroUpdateStep =>
          IF inputs = <<>>
          THEN ret'[1].dt = Div[Num(1), Num(30)]
          ELSE LET elapsed == Sub(TimeOf(inputs'[Len(inputs')]),
                                  TimeOf(inputs[Len(inputs)]))
               IN  /\ ret'[1].dt = Div[elapsed, Num(1000)]
                   /\ Le(elapsed, Zero) =>
                          /\ Le(ret'[1].dt, Zero)
                          /\ ret'[1].value = ret[1].value
                          /\ object'.filter.x = object.filter.x
                          /\ object'.filter.dx = object.filter.dx]_vars

\* an update at the time of the one before it: dt is 0 and the value
\* returned is the previous one, not the new sample
C20_Witness ==
    /\ object.class = "OneEuroFilter"
    /\ Len(inputs) >= 2
    /\ TimeOf(inputs[Len(inputs)]) = TimeOf(inputs[Len(inputs) - 1])
    /\ inputs[Len(inputs)].x # inputs[Len(inputs) - 1].x
    /\ IsZero(ret[1].dt)
    /\ ret[1].value # inputs[Len(inputs)].x

\* C21: the first update after construction, and the first update after a
\* reset whatever came before it, returns its input exactly and leaves the
\* derivative estimate at 0.
C21_FirstSampleSnaps ==
    [][(EuroUpdateStep /\ inputs = <<>>) =>
          /\ ret'[1].value = inputs'[1].x
          /\ object'.filter.x.y = inputs'[1].x
          /\ IsZero(object'.filter.dx.y)]_vars

\* the first update after a reset (the dt of a first sample is the nominal
\* one)
C21_Witness ==
    /\ object.class = "OneEuroFilter"
    /\ object.resetDone
    /\ Len(inputs) = 1
    /\ ret[1].dt = Div[Num(1), Num(30)]
    /\ ret[1].value = inputs[1].x

\* the updates so far gave the same value at evenly spaced, strictly
\* increasing times
ConstantRegularInputs(seq) ==
    /\ \A i \in 1 .. Len(seq) : seq[i].x = seq[1].x
    /\ \A i \in 1 .. Len(seq) - 1 : Gt(TimeOf(seq[i + 1]), TimeOf(seq[i]))
    /\ \A i \in 1 .. Len(seq) - 2 :
           Sub(TimeOf(seq[i + 2]), TimeOf(seq[i + 1]))
               = Sub(TimeOf(seq[i + 1]), TimeOf(seq[i]))

\* |a - b|
Gap(a, b) == MathAbs(Sub(a, b))

\* the unit in the last place of a number c that is not zero: the distance
\* from |c| to the next double above it
Ulp(c) == [neg |-> FALSE, exp |-> c.exp - 52, man |-> <<0, 0, 0, 1024>>]

\* C22, as stated: under constant input at regular times |output - c| never
\* grows from one sample to the next.
C22_NeverMovesAway ==
    [][(EuroUpdateStep /\ inputs # <<>> /\ ConstantRegularInputs(inputs')) =>
          Le(Gap(ret'[1].value, inputs'[1].x), Gap(ret[1].value, inputs[1].x))]_vars

\* C22, amended: under constant input at regular times the first output is
\* c, and every later update, alpha * c + (1 - alpha) * y with each of its
\* four operations rounded, moves the output by less than three units in the
\* last place of c, so the n-th output is within 3 * (n - 1) such units of c.
C22_StaysWithinRounding ==
    (object.class = "OneEuroFilter" /\ inputs # <<>> /\ ConstantRegularInputs(inputs)) =>
        Le(Gap(ret[1].value, inputs[1].x),
           Mul[Num(3 * (Len(inputs) - 1)), Ulp(inputs[1].x)])

\* three samples of the same value at 33 ms: the output has left the value
\* by a rounding
C22_Witness ==
    /\ object.class = "OneEuroFilter"
    /\ Len(inputs) = 3
    /\ ConstantRegularInputs(inputs)
    /\ ret[1].value # inputs[1].x

\* a point's visibility, 0 when the field is absent
VisibilityOrZero(point) == IF point.visibility = <<>> THEN Zero ELSE point.visibility[1]

\* C23: the visibility of getMidpoint(a, b) is the smaller of the two
\* visibilities, an absent one counting as 0.
C23_MidpointVisibility ==
    (call.fn = "getMidpoint" /\ ret # <<>>) =>
        LET va == VisibilityOrZero(call.point1)
            vb == VisibilityOrZero(call.point2)
        IN  ret[1].visibility = <<IF Le(va, vb) THEN va ELSE vb>>

\* a fully visible point and one without the field: visibility 0
C23_Witness ==
    /\ call.fn = "getMidpoint" /\ ret # <<>>
    /\ call.point1.visibility = <<Num(1)>>
    /\ call.point2.visibility = <<>>
    /\ ret[1].visibility = <<Zero>>

\* two points coincide in the (x, y) plane
SamePlanePoint(p, q) == p.x = q.x /\ p.y = q.y

\* C24: calculateAngle(a, b, c) is 0 whenever b coincides with a or with c
\* in the (x, y) plane, whatever the z coordinates.
C24_DegenerateAngleZero ==
    (call.fn = "calculateAngle" /\ ret # <<>>
     /\ (SamePlanePoint(call.point2, call.point1)
         \/ SamePlanePoint(call.point2, call.point3))) =>
        ret = <<Zero>>

\* b lies on c in the plane at another depth, a elsewhere
C24_Witness ==
    /\ call.fn = "calculateAngle" /\ ret = <<Zero>>
    /\ SamePlanePoint(call.point2, call.point3)
    /\ call.point2.z # call.point3.z
    /\ ~SamePlanePoint(call.point2, call.point1)

\* C25: without a baseline pelvicTiltDegDelta.value is 0 for every frame,
\* and a visible pelvis enters the ergonomic score with the sub-score 1.0
\* (weight 0.15: 15 points of the 100), whatever the tilt itself is.
C25_NoBaselineNeutral ==
    (SittingCallDone /\ call.baseline = <<>>) =>
        LET r == ret[1]
        IN  /\ IsZero(r.pelvicTiltDegDelta.value)
            /\ r.pelvicTiltDegDelta.visible =>
                   r.ergoScore.value =
                       ErgoScore([head |-> headScore(r.cvaDeg.visible, r.cvaDeg.value),
                                  trunk |-> trunkScore(r.trunkDeg.visible, r.trunkDeg.value),
                                  pelvis |-> Num(1),
                                  upperLimb |-> upperLimbScore(r.elbowDeg.visible,
                                                               r.elbowDeg.value),
                                  lowerBody |-> lowerBodyScore(r.kneeDeg.visible,
                                                               r.kneeDeg.value)])

\* no baseline, the pelvis in view and tilted by more than 20 degrees
C25_Witness ==
    /\ SittingCallDone /\ call.baseline = <<>>
    /\ ret[1].pelvicTiltDegDelta.visible
    /\ Gt(ret[1].pelvicTiltDeg.value, Num(20))
    /\ IsZero(ret[1].pelvicTiltDegDelta.value)

\* the band of a sub-metric's own classifier
BandOf(entry, value) ==
    CASE entry = "head" -> classify(value, METRIC_THRESHOLDS.cvaDeg)
      [] entry = "trunk" -> classify(value, METRIC_THRESHOLDS.trunkDeg)
      [] entry = "pelvis" -> classifyPelvicTilt(value)
      [] entry = "upperLimb" -> classifyElbow(value)
      [] entry = "lowerBody" -> classifyKnee(value)

\* C26: for a visible sub-metric, at every angle in [0,180] and every pelvic
\* delta, the sub-score is 1.0 iff its classifier gives green, 0.7 iff
\* yellow, 0.4 iff red.
C26_ScoreAgreesWithBand ==
    (call.fn = "scores" /\ ret # <<>> /\ call.visible
     /\ (call.entry = "pelvis" \/ (Le(Zero, call.value) /\ Le(call.value, Num(180))))) =>
        LET band == BandOf(call.entry, call.value)
        IN  /\ ret[1] = Num(1) <=> band = "green"
            /\ ret[1] = Dec(7, 10) <=> band = "yellow"
            /\ ret[1] = Dec(4, 10) <=> band = "red"

\* an elbow a thousandth below 75 degrees: red, 0.4
C26_Witness ==
    /\ call.fn = "scores" /\ call.entry = "upperLimb" /\ call.visible
    /\ call.value = Dec(74999, 1000)
    /\ ret = <<Dec(4, 10)>>

\* C27: analyzePosture reports good or slouching only with the spine in
\* view and a confidence of at least 0.8 (4 of the 5 key landmarks), and a
\* medium or high severity only with slouching.
C27_StatusNeedsSpine ==
    AnalyzeCallDone =>
        LET r == ret[1]
        IN  /\ r.status \in {"good", "slouching"} =>
                   /\ r.metrics.spineVisible
                   /\ Ge(r.metrics.confidence, Dec(8, 10))
                   /\ KeyVisibleCount(call.landmarks) >= 4
            /\ r.severity \in {"medium", "high"} => r.status = "slouching"

\* good posture with the nose out of view: confidence exactly 0.8
C27_Witness ==
    /\ AnalyzeCallDone
    /\ ret[1].status = "good"
    /\ ret[1].metrics.confidence = Dec(8, 10)
    /\ ~Visible30(call.landmarks, POSE_LANDMARKS.NOSE)

\* the One-Euro filter of each sub-metric
MetricFilters ==
    [cvaDeg |-> cvaFilter, trunkDeg |-> trunkFilterEuro,
     pelvicTiltDegDelta |-> pelvicFilter, elbowDeg |-> elbowFilter,
     kneeDeg |-> kneeFilter]

\* the landmarks a sub-metric requires are visible in the current frame
MetricInView(m) == \A i \in RequiredLandmarks[m] : Visible30(landmarks, i)

\* this step is an analysis pass
PassStep == passes' = passes + 1

\* C28: a sub-metric's One-Euro filter changes only in an analysis pass on a
\* frame where the metric is visible, and the trunk moving-average filter
\* only in a pass on a frame with the spine in view; the smoothed value
\* emitted for a metric, or a trunk flexion, that is not visible is 0.
C28_InvisibleLeavesFilter ==
    [][/\ \A m \in SubMetrics :
             /\ MetricFilters'[m] # MetricFilters[m] => (PassStep /\ MetricInView(m))
             /\ (PassStep /\ ~MetricInView(m)) =>
                    /\ sittingMetrics' # <<>>
                    /\ IsZero(sittingMetrics'[1][m].value)
                    /\ currentAnalysis' # <<>>
                    /\ IsZero(currentAnalysis'[1].metrics.sittingMetrics[m].value)
       /\ trunkFilter' # trunkFilter => (PassStep /\ SpineInView(landmarks))
       /\ (PassStep /\ ~SpineInView(landmarks)) =>
              /\ currentAnalysis' # <<>>
              /\ IsZero(currentAnalysis'[1].metrics.trunkFlexion)]_vars

\* The messages the worker posted in answer to the message numbered request.
RepliesTo(request) == {i \in 1 .. Len(posted) : posted[i].request = request}

\* What the environment decided for a detect message: the worker was
\* initialized with a landmarker when it arrived, createImageBitmap resolved
\* and detectForVideo returned.
DetectSucceeds(r) ==
    /\ r.initialized
    /\ r.landmarker # <<>>
    /\ r.bitmapOk
    /\ r.detectOk

\* C29: every 'detect' message the worker has finished handling has exactly
\* one reply, and none while it waits for createImageBitmap; the reply is a
\* 'detectionResult' with the request's timestamp when the worker was
\* initialized and detection succeeded, an 'error' otherwise; and in every
\* state isInitialized implies that poseLandmarker is not null, however the
\* runs of initializePoseLandmarker and the messages interleave.
C29_OneReplyPerDetect ==
    /\ \A request \in 1 .. Len(requests) :
           requests[request].type = "detect" =>
               /\ Cardinality(RepliesTo(request))
                      = (IF requests[request].pc = "done" THEN 1 ELSE 0)
               /\ \A i \in RepliesTo(request) :
                      IF DetectSucceeds(requests[request])
                      THEN /\ posted[i].type = "detectionResult"
                           /\ posted[i].timestamp = requests[request].timestamp
                      ELSE posted[i].type = "error"
    /\ isInitialized => poseLandmarker # <<>>

\* Two runs of initializePoseLandmarker have completed, one of them started by
\* an 'init' message; a detect message that arrived before the first of them
\* was answered by an error, and a later one by its detection result.
C29_Witness ==
    /\ Len(initRuns) >= 2
    /\ \A run \in 1 .. 2 : initRuns[run] = "done"
    /\ \E early, late \in 1 .. Len(requests) :
           /\ requests[early].type = "detect"
           /\ requests[late].type = "detect"
           /\ ~requests[early].initialized
           /\ \E i \in RepliesTo(early) : posted[i].type = "error"
           /\ \E i \in RepliesTo(late) :
                  /\ posted[i].type = "detectionResult"
                  /\ posted[i].timestamp = requests[late].timestamp

\* a step in which detectPose ran, from startDetection or from an animation
\* frame
DetectPoseStep == loopRuns' = loopRuns + 1

\* C30: after every run of detectPose any two successive calls of
\* onLandmarksUpdate are more than 100 ms apart by performance.now(); a run
\* that detects a pose within 100 ms of the last emission draws it and does
\* not emit it; and the run, whichever path it took (missing video or
\* landmarker, unchanged video time, zero dimensions, detection error, no
\* pose, pose), has requested the next animation frame: the frame that
\* animationRef.current names when the run ends is pending.
C30_EmissionsThrottled ==
    [][DetectPoseStep =>
          /\ \A i \in 2 .. Len(emitted') : emitted'[i] - emitted'[i - 1] > 100
          /\ (loopRun'.landmarks /\ loopRun'.since <= 100) =>
                 (loopRun'.draw /\ ~loopRun'.emit)
          /\ loopRun'.path \in {"missing", "unchanged", "dimensions", "error", "empty",
                                "detected"}
          /\ loopRun'.requested
          /\ animationRef' # <<>>
          /\ animationRef'[1] \in animationFrames'
          /\ animationRef'[1] \notin animationFrames]_vars

\* Two frames were emitted, and the pose detected exactly 100 ms after the
\* second of them was drawn and not emitted.
C30_Witness ==
    /\ Len(emitted) >= 2
    /\ loopRun # NoRun
    /\ loopRun.landmarks
    /\ loopRun.now - emitted[Len(emitted)] = 100
    /\ loopRun.draw
    /\ ~loopRun.emit
====
